---- MODULE Spec2Model ----
(***************************************************************************)
(* Model of the statistical data-cleaning engine of the backend:           *)
(*   utils/data_cleaner.py     detect_outliers, handle_missing_values,     *)
(*                             clean_dataset                               *)
(*   utils/ai_data_cleaner.py  create_default_recommendations,             *)
(*                             apply_ai_recommendations                    *)
(*                                                                         *)
(* A dataframe is a record [names, dtypes, rows]: names is the sequence of *)
(* column names (each a sequence of characters), dtypes the sequence of    *)
(* column dtypes ("number" or "object") and rows the sequence of rows,     *)
(* each a sequence of cells.  A cell is an integer; NaN is the missing     *)
(* marker.  Cells of a "number" column are fixed-point numbers counted in  *)
(* units of 1/Unit (Unit = 1000: 1234 is 1.234); floating-point division   *)
(* and square root are modelled by the floor of the exact result in these  *)
(* units.  Cells of an "object" column are codes of distinct non-numeric   *)
(* strings.                                                                *)
(***************************************************************************)
EXTENDS Integers, Sequences, FiniteSets, TLC

\* The missing-value marker (np.nan / None): outside every value range used.
NaN == -1000000

\* Fixed-point units per 1.0.
Unit == 1000

IsNull(v) == v = NaN

Abs(x) == IF x < 0 THEN -x ELSE x

Range(s) == {s[k] : k \in 1..Len(s)}

\* ---------------------------------------------------------------- series

\* Series.dropna(): the non-missing values, in order.
DropNaSeries(s) == SelectSeq(s, LAMBDA v : ~IsNull(v))

\* Series.isnull().sum()
NullCount(s) == Len(s) - Len(DropNaSeries(s))

RECURSIVE SumSeq(_)
SumSeq(s) == IF s = <<>> THEN 0 ELSE Head(s) + SumSeq(Tail(s))

RECURSIVE SumSq(_)
SumSq(s) == IF s = <<>> THEN 0 ELSE Head(s) * Head(s) + SumSq(Tail(s))

RECURSIVE Insert(_, _)
Insert(x, s) ==
  IF s = <<>> THEN <<x>>
  ELSE IF x <= Head(s) THEN <<x>> \o s
  ELSE <<Head(s)>> \o Insert(x, Tail(s))

RECURSIVE SortAsc(_)
SortAsc(s) == IF s = <<>> THEN <<>> ELSE Insert(Head(s), SortAsc(Tail(s)))

\* floor(sqrt(n)) by bisection on [lo, hi].
RECURSIVE SqrtBetween(_, _, _)
SqrtBetween(n, lo, hi) ==
  IF lo >= hi THEN lo
  ELSE LET mid == (lo + hi + 1) \div 2
       IN IF mid * mid <= n THEN SqrtBetween(n, mid, hi)
          ELSE SqrtBetween(n, lo, mid - 1)

ISqrt(n) == SqrtBetween(n, 0, 46340)

\* Series.mean(): skips missing values; NaN when none is left.
Mean(s) ==
  LET x == DropNaSeries(s)
  IN IF x = <<>> THEN NaN ELSE SumSeq(x) \div Len(x)

\* n * (sum of squared deviations from the mean), exactly: n*Sum(x^2) - Sum(x)^2.
DevSq(s) ==
  LET x == DropNaSeries(s)
  IN Len(x) * SumSq(x) - SumSeq(x) * SumSeq(x)

\* Series.std(): sample standard deviation (ddof = 1), skips missing values;
\* NaN with fewer than two values.
Std(s) ==
  LET x == DropNaSeries(s)
      n == Len(x)
  IN IF n < 2 THEN NaN ELSE ISqrt(DevSq(s) \div (n * (n - 1)))

\* Series.quantile(k/4) with linear interpolation between order statistics:
\* position (n-1)*k/4 in the sorted non-missing values; NaN when there is none.
Quantile(s, k) ==
  LET x == SortAsc(DropNaSeries(s))
      n == Len(x)
      pos4 == (n - 1) * k
      lo == pos4 \div 4
      rem == pos4 % 4
  IN IF n = 0 THEN NaN
     ELSE IF rem = 0 THEN x[lo + 1]
     ELSE x[lo + 1] + (rem * (x[lo + 2] - x[lo + 1])) \div 4

\* The middle value without averaging: the lower of the two middle values of an
\* even number of values.
MedianLow(s) ==
  LET x == SortAsc(DropNaSeries(s))
  IN IF Len(x) = 0 THEN NaN ELSE x[(Len(x) + 1) \div 2]

\* Series.median()
Median(s) == Quantile(s, 2)

Count(s, v) == Len(SelectSeq(s, LAMBDA w : w = v))

RECURSIVE SetToSortedSeq(_)
SetToSortedSeq(S) ==
  IF S = {} THEN <<>>
  ELSE LET m == CHOOSE v \in S : \A w \in S : v <= w
       IN <<m>> \o SetToSortedSeq(S \ {m})

\* Series.mode(): the most frequent non-missing values in ascending order
\* (empty when every value is missing).
Mode(s) ==
  LET x == DropNaSeries(s)
  IN SetToSortedSeq({v \in Range(x) : \A w \in Range(x) : Count(x, w) <= Count(x, v)})

\* ------------------------------------------------------------- dataframe

NCols(d) == Len(d.names)

NRows(d) == Len(d.rows)

\* "column in df.columns"
HasColumn(d, name) == \E c \in 1..NCols(d) : d.names[c] = name

\* Position of a column that exists.
ColIndex(d, name) == CHOOSE c \in 1..NCols(d) : d.names[c] = name

\* df[column] by position: the column's cells in row order.
Col(d, c) == [r \in 1..NRows(d) |-> d.rows[r][c]]

\* np.issubdtype(df[column].dtype, np.number)
IsNumeric(d, c) == d.dtypes[c] = "number"

\* The rows whose flag is FALSE, in order (df[~flags]).
RECURSIVE KeepUnflagged(_, _)
KeepUnflagged(rows, flags) ==
  IF rows = <<>> THEN <<>>
  ELSE (IF Head(flags) THEN <<>> ELSE <<Head(rows)>>)
       \o KeepUnflagged(Tail(rows), Tail(flags))

WithRows(d, rows) == [d EXCEPT !.rows = rows]

\* df[~flags]
RemoveFlagged(d, flags) == WithRows(d, KeepUnflagged(d.rows, flags))

\* df.dropna(subset=[column])
DropNaRows(d, c) == RemoveFlagged(d, [r \in 1..NRows(d) |-> IsNull(d.rows[r][c])])

\* df[column] = series (a series as long as the frame)
SetColumn(d, c, s) ==
  WithRows(d, [r \in 1..NRows(d) |-> [d.rows[r] EXCEPT ![c] = s[r]]])

\* Series.fillna(v, limit=1): only the first missing cell is filled.
FillNaLimitOne(s, v) ==
  [r \in 1..Len(s) |->
     IF IsNull(s[r]) /\ (\A q \in 1..(r - 1) : ~IsNull(s[q])) THEN v ELSE s[r]]

\* Series.fillna(v): fillna(NaN) leaves the series as it is.
FillNa(s, v) == [r \in 1..Len(s) |-> IF IsNull(s[r]) THEN v ELSE s[r]]

\* The key of a row under a subset of column positions.
RowKey(row, subset) == [k \in 1..Len(subset) |-> row[subset[k]]]

\* df.drop_duplicates(subset=..., keep='last'): a row is dropped when a later
\* row has the same key.
DropDuplicatesKeepLast(d, subset) ==
  RemoveFlagged(d, [r \in 1..NRows(d) |->
      \E q \in (r + 1)..NRows(d) :
         RowKey(d.rows[q], subset) = RowKey(d.rows[r], subset)])

\* df.drop_duplicates(subset=..., keep='first'): a row is dropped when an earlier
\* row has the same key; missing values compare equal to each other.
DropDuplicates(d, subset) ==
  RemoveFlagged(d, [r \in 1..NRows(d) |->
      \E q \in 1..(r - 1) : RowKey(d.rows[q], subset) = RowKey(d.rows[r], subset)])

AllColumns(d) == [c \in 1..NCols(d) |-> c]

\* df.isnull().sum().to_dict(): column name -> number of missing cells.
MissingCounts(d) == [c \in 1..NCols(d) |-> NullCount(Col(d, c))]

\* -------------------------------------------------------------- outliers

\* A comparison with nan that came out True.
NanComparesTrue == TRUE

\* 0/0 in numpy floating point is nan, and a comparison with nan is False.
ZeroByZeroFlag == FALSE

\* np.abs((x - mean) / std) > t for one cell x of the series s, decided
\* exactly, with the threshold t2 counted in halves (6 is 3.0): with n values,
\* sum S and n*Sum(dev^2) = D, the z-score exceeds t2/2 iff
\* 4 * (n*x - S)^2 * (n - 1) > t2^2 * n * D.  A missing cell, a series of fewer
\* than two values (std is nan) and zero deviation over zero std (0/0 = nan)
\* all compare False.
ZScoreFlag(s, x, t2) ==
  LET v == DropNaSeries(s)
      n == Len(v)
      dev == n * x - SumSeq(v)
  IN IF IsNull(x) \/ n < 2 THEN FALSE
     ELSE IF DevSq(s) = 0 /\ dev = 0 THEN ZeroByZeroFlag
     ELSE 4 * dev * dev * (n - 1) > t2 * t2 * n * DevSq(s)

\* z_scores > threshold as a boolean series.
ZScoreOutliers(s, t2) == [r \in 1..Len(s) |-> ZScoreFlag(s, s[r], t2)]

\* threshold * std in units, the threshold counted in halves.
TimesStd(s, t2) == (t2 * Std(s)) \div 2

\* Q1 - t*IQR and Q3 + t*IQR with the threshold counted in halves (3 is 1.5).
IqrLower(s, t2) == Quantile(s, 1) - (t2 * (Quantile(s, 3) - Quantile(s, 1))) \div 2

IqrUpper(s, t2) == Quantile(s, 3) + (t2 * (Quantile(s, 3) - Quantile(s, 1))) \div 2

\* (x < lower) | (x > upper) as a boolean series; missing cells compare False.
IqrOutliers(s, t2) ==
  [r \in 1..Len(s) |->
     ~IsNull(s[r]) /\ (s[r] < IqrLower(s, t2) \/ s[r] > IqrUpper(s, t2))]

TrueCount(flags) == Len(SelectSeq(flags, LAMBDA b : b))

\* series.loc[series < bound] = bound
ClipBelow(s, bound) ==
  [r \in 1..Len(s) |-> IF ~IsNull(s[r]) /\ s[r] < bound THEN bound ELSE s[r]]

\* series.loc[series > bound] = bound
ClipAbove(s, bound) ==
  [r \in 1..Len(s) |-> IF ~IsNull(s[r]) /\ s[r] > bound THEN bound ELSE s[r]]

\* IQR capping that sets the flagged cells to the quartiles instead of the fences.
CapIqrToQuartiles(s, t2) ==
  [r \in 1..Len(s) |->
     IF IsNull(s[r]) THEN s[r]
     ELSE IF s[r] < IqrLower(s, t2) THEN Quantile(s, 1)
     ELSE IF s[r] > IqrUpper(s, t2) THEN Quantile(s, 3)
     ELSE s[r]]

\* IQR capping that blanks the flagged cells instead of moving them to the fences.
CapIqrBlanks(s, t2) ==
  [r \in 1..Len(s) |->
     IF ~IsNull(s[r]) /\ (s[r] < IqrLower(s, t2) \/ s[r] > IqrUpper(s, t2)) THEN NaN
     ELSE s[r]]

\* IQR capping in both functions: Q1, Q3 and the fences are computed once, then
\* the cells below the lower fence and the cells above the upper fence are set
\* to it, one assignment after the other.
CapIqr(s, t2) == ClipAbove(ClipBelow(s, IqrLower(s, t2)), IqrUpper(s, t2))

\* ----------------------------------------------------- value transformations

EnsurePricesPositive == "Ensure all prices are positive"
EnsureValuesPositive == "Ensure all values are positive"
RoundCurrency == "Round to standard currency precision (2 decimal places)"
ConvertToInteger == "Convert to integer values"

\* round(x, 2) on one cell: to the nearest hundredth (Unit \div 100 units),
\* ties to the even hundredth; a missing cell stays missing.
Round2(v) ==
  LET step == Unit \div 100
      q == v \div step
      r == v % step
  IN IF IsNull(v) THEN NaN
     ELSE IF 2 * r < step THEN q * step
     ELSE IF 2 * r > step THEN (q + 1) * step
     ELSE IF q % 2 = 0 THEN q * step ELSE (q + 1) * step

\* float(x).is_integer(): False for nan.
IsInteger(v) == ~IsNull(v) /\ v % Unit = 0

\* astype(int) on one cell: truncation toward zero.
TruncInt(v) == IF v >= 0 THEN (v \div Unit) * Unit ELSE -(((-v) \div Unit) * Unit)

\* An object column that holds a string: comparing it with a number (x < 0,
\* min() < 0), averaging it or float(x) raises; missing cells alone do not.
HoldsStrings(d, c) == ~IsNumeric(d, c) /\ DropNaSeries(Col(d, c)) # <<>>

\* (df[column] < 0) as a boolean series.
Negative(s) == [r \in 1..Len(s) |-> ~IsNull(s[r]) /\ s[r] < 0]

\* ------------------------------------------------- duplicate-key heuristics

Upper == <<"A", "B", "C", "D", "E", "F", "G", "H", "I", "J", "K", "L", "M",
           "N", "O", "P", "Q", "R", "S", "T", "U", "V", "W", "X", "Y", "Z">>

Lowers == <<"a", "b", "c", "d", "e", "f", "g", "h", "i", "j", "k", "l", "m",
            "n", "o", "p", "q", "r", "s", "t", "u", "v", "w", "x", "y", "z">>

\* The lower-case letter of every upper-case letter.
LowerOf ==
  [ch \in {Upper[u] : u \in 1..Len(Upper)} |->
     Lowers[CHOOSE u \in 1..Len(Upper) : Upper[u] = ch]]

\* str.lower() on a name held as a sequence of characters.
Lower(name) ==
  [k \in 1..Len(name) |-> IF name[k] \in DOMAIN LowerOf THEN LowerOf[name[k]] ELSE name[k]]

\* "pattern in name" for strings held as sequences of characters.
Contains(name, pattern) ==
  \E k \in 0..(Len(name) - Len(pattern)) :
     \A j \in 1..Len(pattern) : name[k + j] = pattern[j]

common_id_patterns ==
  { <<"i", "d">>, <<"c", "o", "d", "e">>, <<"k", "e", "y">>, <<"n", "u", "m">>,
    <<"n", "u", "m", "b", "e", "r">> }

name_patterns ==
  { <<"n", "a", "m", "e">>, <<"u", "s", "e", "r">>,
    <<"c", "u", "s", "t", "o", "m", "e", "r">>, <<"c", "l", "i", "e", "n", "t">>,
    <<"p", "e", "r", "s", "o", "n">> }

contact_patterns ==
  { <<"e", "m", "a", "i", "l">>, <<"m", "a", "i", "l">>, <<"p", "h", "o", "n", "e">>,
    <<"c", "o", "n", "t", "a", "c", "t">> }

AnyPattern(name, patterns) ==
  LET col_lower == Lower(name)
  IN \E p \in patterns : Contains(col_lower, p)

\* Series.nunique(): the number of distinct non-missing values.
NUnique(s) == Cardinality(Range(DropNaSeries(s)))

\* The scorer's score of column c: name points plus uniqueness points, where
\* the uniqueness ratio is nunique / len (0 for an empty frame).
ColumnScore(d, c) ==
  LET nu == NUnique(Col(d, c))
      n == NRows(d)
      is_likely_identifier == n > 0 /\ 2 * nu > n /\ nu < n
  IN (IF AnyPattern(d.names[c], common_id_patterns) THEN 5 ELSE 0)
     + (IF AnyPattern(d.names[c], name_patterns) THEN 3 ELSE 0)
     + (IF AnyPattern(d.names[c], contact_patterns) THEN 4 ELSE 0)
     + (IF is_likely_identifier THEN 3
        ELSE IF n > 0 /\ nu = n THEN 6
        ELSE IF n > 0 /\ 5 * nu > 4 * n THEN 4
        ELSE 0)

\* potential_id_columns: the positions of the columns scoring above zero, in
\* column order.
PotentialIdColumns(d) ==
  SelectSeq(AllColumns(d), LAMBDA c : ColumnScore(d, c) > 0)

\* list.sort(key=score, reverse=True): stable, so equal scores keep their order.
RECURSIVE InsertByScore(_, _, _)
InsertByScore(d, c, s) ==
  IF s = <<>> THEN <<c>>
  ELSE IF ColumnScore(d, c) >= ColumnScore(d, Head(s)) THEN <<c>> \o s
  ELSE <<Head(s)>> \o InsertByScore(d, c, Tail(s))

RECURSIVE SortByScore(_, _)
SortByScore(d, s) ==
  IF s = <<>> THEN <<>>
  ELSE LET rest == SortByScore(d, Tail(s))
       IN InsertByScore(d, Head(s), rest)

\* The scorer's key without the rule for the columns scoring 5 or more: always
\* the three best scoring columns.
ScorerSubsetTopThree(d) ==
  LET ranked == SortByScore(d, PotentialIdColumns(d))
  IN SubSeq(ranked, 1, IF Len(ranked) < 3 THEN Len(ranked) ELSE 3)

\* The fallback scorer's key: the columns scoring 5 or more if there is one,
\* else the three best scoring columns; <<>> (all columns) when none scores.
ScorerSubset(d) ==
  LET ranked == SortByScore(d, PotentialIdColumns(d))
      high == SelectSeq(ranked, LAMBDA c : ColumnScore(d, c) >= 5)
  IN IF high # <<>> THEN high
     ELSE SubSeq(ranked, 1, IF Len(ranked) < 3 THEN Len(ranked) ELSE 3)

\* The names of the model's answer that are columns of the frame, as positions.
SuggestedSubset(d, columns) ==
  LET present == SelectSeq(columns, LAMBDA name : HasColumn(d, name))
  IN [k \in 1..Len(present) |-> ColIndex(d, present[k])]

\* The key when the answer "all_columns" is taken at its word (line 519) and
\* not turned into a failure (lines 526-527).
DuplicateSubsetAllColumns(d, answer) ==
  IF answer.kind = "all_columns" THEN <<>>
  ELSE IF answer.kind = "columns" /\ SuggestedSubset(d, answer.columns) # <<>>
  THEN SuggestedSubset(d, answer.columns)
  ELSE ScorerSubset(d)

\* The key when the scorer is asked first and the model's answer only counts
\* when the scorer finds no column.
DuplicateSubsetScorerFirst(d, answer) ==
  IF ScorerSubset(d) # <<>> THEN ScorerSubset(d)
  ELSE IF answer.kind = "columns" THEN SuggestedSubset(d, answer.columns)
  ELSE <<>>

\* The key apply_ai_recommendations deduplicates on.  answer is the outcome of
\* the attempt to ask the language model: kind "no_key" (no API key), "raises"
\* (the call fails), "all_columns" or "columns" (a list of names).  Anything but a
\* list naming an existing column falls back to the scorer.
DuplicateSubset(d, answer) ==
  IF answer.kind = "columns" /\ SuggestedSubset(d, answer.columns) # <<>>
  THEN SuggestedSubset(d, answer.columns)
  ELSE ScorerSubset(d)

\* drop_duplicates on the chosen key, or on all columns when the key is empty.
RemoveDuplicates(d, answer) ==
  LET duplicate_subset == DuplicateSubset(d, answer)
  IN IF duplicate_subset # <<>>
     THEN DropDuplicates(d, duplicate_subset)
     ELSE DropDuplicates(d, AllColumns(d))

\* ------------------------------------------------------------------ state

VARIABLES
  fn,               \* the function called: "apply_ai_recommendations" or "clean_dataset"
  df,               \* the dataframe passed in
  recommendations,  \* the DatasetRecommendation passed to apply_ai_recommendations
  options,          \* the options passed to clean_dataset
  answer,           \* what asking the language model for a duplicate key yields
  chain_result,     \* what asking the language model for recommendations yields
  cleaned_df,       \* the working copy
  audit_log,        \* the audit entries appended so far
  report,           \* the report under construction
  pc,               \* the position in the function's body
  idx,              \* the position in the loop being run
  raised,           \* the exception that left the function, or "none"
  caller_df,        \* the object the caller passed: its frame now, and whether
                    \* cleaned_df names that same object
  environ,          \* os.environ["OPENAI_API_KEY"] of the host process
  folder,           \* the files of the upload folder, by name
  route             \* the /clean request being served, or NoRoute

vars == <<fn, df, recommendations, options, answer, chain_result, cleaned_df,
          audit_log, report, pc, idx, raised, caller_df, environ, folder, route>>

\* The state of the host process that requests share.
host == <<environ, folder, route>>

inputs == <<fn, df, recommendations, options, answer, chain_result>>

\* The tests of lines 253 and 472 of ai_data_cleaner.py: a key is configured
\* when the variable is set, not empty and not "empty-string".
NoKey == <<>>
EmptyString == <<"e", "m", "p", "t", "y", "-", "s", "t", "r", "i", "n", "g">>
HasKey(openai_api_key) == openai_api_key # NoKey /\ openai_api_key # EmptyString

\* What asking the language model yields in the present environment: without
\* a key it is not asked (lines 253-255, 472 and 532).
Asked(openai_api_key) ==
  IF HasKey(openai_api_key) THEN chain_result
  ELSE [kind |-> "no_key",
        recommendations |-> [duplicate_removal |-> FALSE, column_recommendations |-> <<>>]]

ChainResult == Asked(environ)

KeyAnswer ==
  IF HasKey(environ) THEN answer ELSE [kind |-> "no_key", columns |-> <<>>]

\* "cleaned_df = df" for "cleaned_df = df.copy()": the working frame is the
\* caller's object itself.
SameObject(d) == [frame |-> d, same_object |-> TRUE]

\* df.copy() (ai_data_cleaner.py line 447, data_cleaner.py line 52): a new
\* object holding the values of d.
copy(d) == [frame |-> d, same_object |-> FALSE]

NoName == <<>>

\* DataAuditLog(...).dict() without its timestamp.
AuditEntry(operation, column, detail, rows_affected) ==
  [operation |-> operation, column |-> column, detail |-> detail,
   rows_affected |-> rows_affected]

\* dict[key] = value
Put(dict, key, value) == (key :> value) @@ dict

\* The thresholds apply_ai_recommendations hard-codes, counted in halves:
\* z-score 3 and IQR multiplier 1.5.
ZScoreThreshold == 6

IqrThreshold == 3

\* The report both functions start from (lines 453-463 and 42-49).
InitialReport(d) ==
  [original_rows |-> NRows(d),
   original_columns |-> NCols(d),
   missing_values_before |-> MissingCounts(d),
   duplicates_removed |-> 0,
   outliers_handled |-> <<>>,
   missing_values_handled |-> <<>>,
   final_rows |-> -1,
   final_columns |-> -1,
   missing_values_after |-> <<>>]

\* The final counts taken after reset_index(), which adds the index as a column.
FinalReportWithIndex(r, d) ==
  [r EXCEPT !.final_rows = NRows(d),
            !.final_columns = NCols(d) + 1,
            !.missing_values_after = MissingCounts(d)]

\* The closing lines of both functions: the final counts.
FinalReport(r, d) ==
  [r EXCEPT !.final_rows = NRows(d),
            !.final_columns = NCols(d),
            !.missing_values_after = MissingCounts(d)]

\* ----------------------------------------- apply_ai_recommendations, by step

Rec == recommendations.column_recommendations[idx]

RecCol == ColIndex(cleaned_df, Rec.column_name)

Raise(exception) ==
  /\ raised' = exception
  /\ pc' = "raised"
  /\ UNCHANGED <<inputs, cleaned_df, audit_log, report, idx>>

\* The loop body with the outlier block written before the missing-value block.
StepAfterOutliersFirst(step) ==
  CASE step = "duplicates" -> "column"
    [] step = "column" -> "outliers"
    [] step = "outliers" -> "missing"
    [] step = "missing" -> "ensure_prices_positive"
    [] step = "ensure_prices_positive" -> "ensure_values_positive"
    [] step = "ensure_values_positive" -> "round"
    [] step = "round" -> "convert_to_integer"
    [] step = "convert_to_integer" -> "column"

\* The order of the blocks of apply_ai_recommendations: duplicate removal
\* (465), the loop over the column recommendations (625) and, in its body,
\* missing values (632), outliers (716) and the value transformations (824,
\* 840, 856, 870), after which the loop takes the next recommendation.
StepAfter(step) ==
  CASE step = "duplicates" -> "column"
    [] step = "column" -> "missing"
    [] step = "missing" -> "outliers"
    [] step = "outliers" -> "ensure_prices_positive"
    [] step = "ensure_prices_positive" -> "ensure_values_positive"
    [] step = "ensure_values_positive" -> "round"
    [] step = "round" -> "convert_to_integer"
    [] step = "convert_to_integer" -> "column"

\* Lines 465-622: duplicate removal, when recommended, on the copy of the input.
AIDuplicates ==
  /\ fn = "apply_ai_recommendations" /\ pc = "duplicates"
  /\ IF recommendations.duplicate_removal
     THEN LET after == RemoveDuplicates(cleaned_df, KeyAnswer)
              duplicates_removed == NRows(cleaned_df) - NRows(after)
          IN /\ cleaned_df' = after
             /\ report' = [report EXCEPT !.duplicates_removed = duplicates_removed]
             /\ audit_log' = Append(audit_log,
                  AuditEntry("remove_duplicates", NoName,
                             "ai_powered_duplicate_detection", duplicates_removed))
     ELSE UNCHANGED <<cleaned_df, report, audit_log>>
  /\ pc' = StepAfter(pc)
  /\ UNCHANGED <<inputs, idx, raised>>

\* The head of the loop with "break" for "continue" at line 630: a
\* recommendation for a column the frame lacks ends the loop.
AINextColumnBreaks ==
  /\ fn = "apply_ai_recommendations" /\ pc = "column"
  /\ IF \/ idx > Len(recommendations.column_recommendations)
        \/ ~HasColumn(cleaned_df, Rec.column_name)
     THEN /\ report' = FinalReport(report, cleaned_df)
          /\ pc' = "done"
          /\ idx' = idx
     ELSE /\ pc' = StepAfter(pc)
          /\ UNCHANGED <<report, idx>>
  /\ UNCHANGED <<inputs, cleaned_df, audit_log, raised>>

\* Lines 625-630 and 888-893: the head of the loop over the column
\* recommendations; a recommendation for a column the frame lacks is skipped.
AINextColumn ==
  /\ fn = "apply_ai_recommendations" /\ pc = "column"
  /\ IF idx > Len(recommendations.column_recommendations)
     THEN /\ report' = FinalReport(report, cleaned_df)
          /\ pc' = "done"
          /\ idx' = idx
     ELSE IF ~HasColumn(cleaned_df, Rec.column_name)
     THEN /\ idx' = idx + 1
          /\ UNCHANGED <<report, pc>>
     ELSE /\ pc' = StepAfter(pc)
          /\ UNCHANGED <<report, idx>>
  /\ UNCHANGED <<inputs, cleaned_df, audit_log, raised>>

\* The frame after the missing-value method of lines 637-712.
AIMissingFrame(d, c, method) ==
  LET s == Col(d, c)
  IN IF method = "drop" THEN DropNaRows(d, c)
     ELSE IF method = "mean" /\ IsNumeric(d, c) THEN SetColumn(d, c, FillNa(s, Mean(s)))
     ELSE IF method = "median" /\ IsNumeric(d, c) THEN SetColumn(d, c, FillNa(s, Median(s)))
     ELSE IF method = "mode" /\ Mode(s) # <<>> THEN SetColumn(d, c, FillNa(s, Mode(s)[1]))
     ELSE d

\* The audit entries the missing-value method appends (lines 643-712).
AIMissingAudit(d, c, method) ==
  LET missing_before == NullCount(Col(d, c))
  IN IF method = "drop"
     THEN <<AuditEntry("drop_missing_values", d.names[c], method,
                       NRows(d) - NRows(DropNaRows(d, c)))>>
     ELSE IF \/ method \in {"mean", "median"} /\ IsNumeric(d, c)
             \/ method = "mode" /\ Mode(Col(d, c)) # <<>>
     THEN <<AuditEntry("fill_missing_values", d.names[c], method, missing_before)>>
     ELSE <<>>

\* Lines 632-714: missing values of the column.
AIMissing ==
  /\ fn = "apply_ai_recommendations" /\ pc = "missing"
  /\ LET method == Rec.missing_values
     IN IF method # "none"
        THEN /\ cleaned_df' = AIMissingFrame(cleaned_df, RecCol, method)
             /\ audit_log' = audit_log \o AIMissingAudit(cleaned_df, RecCol, method)
             /\ report' = [report EXCEPT !.missing_values_handled =
                             Put(@, Rec.column_name, method)]
        ELSE UNCHANGED <<cleaned_df, audit_log, report>>
  /\ pc' = StepAfter(pc)
  /\ UNCHANGED <<inputs, idx, raised>>

\* Lines 722-729: z-score for "zscore", the IQR fences for any other method.
AIOutlierFlags(s, method) ==
  IF method = "zscore" THEN ZScoreOutliers(s, ZScoreThreshold)
  ELSE IqrOutliers(s, IqrThreshold)

\* z-score capping that adds the threshold itself to the mean, not threshold*std.
AICapZScoreNoStd(s) ==
  LET outliers == ZScoreOutliers(s, ZScoreThreshold)
      mean == Mean(s)
      three == (ZScoreThreshold * Unit) \div 2
  IN [r \in 1..Len(s) |->
        IF outliers[r] THEN (IF s[r] > mean THEN mean + three ELSE mean - three)
        ELSE s[r]]

\* Lines 756-764: a flagged cell above the mean becomes mean + 3*std, one at or
\* below it mean - 3*std; mean and std are those of the series before capping.
AICapZScore(s) ==
  LET outliers == ZScoreOutliers(s, ZScoreThreshold)
      mean == Mean(s)
      std3 == TimesStd(s, ZScoreThreshold)
  IN [r \in 1..Len(s) |->
        IF outliers[r] THEN (IF s[r] > mean THEN mean + std3 ELSE mean - std3)
        ELSE s[r]]

\* The frame after the outlier handling of lines 734-795.
AIOutlierFrame(d, c, method, action) ==
  LET s == Col(d, c)
      outliers == AIOutlierFlags(s, method)
  IN IF TrueCount(outliers) = 0 THEN d
     ELSE IF action = "remove" THEN RemoveFlagged(d, outliers)
     ELSE IF action = "cap"
     THEN SetColumn(d, c, IF method = "zscore" THEN AICapZScore(s)
                          ELSE CapIqr(s, IqrThreshold))
     ELSE d

\* The audit entries the outlier handling appends (lines 740-812).
AIOutlierAudit(d, c, method, action) ==
  LET outliers == AIOutlierFlags(Col(d, c), method)
      outlier_count == TrueCount(outliers)
  IN IF outlier_count = 0 THEN <<>>
     ELSE IF action = "remove"
     THEN <<AuditEntry("remove_outliers", d.names[c], method,
                       NRows(d) - NRows(RemoveFlagged(d, outliers)))>>
     ELSE IF action = "cap"
     THEN <<AuditEntry("cap_outliers", d.names[c], method, outlier_count)>>
     ELSE <<>>

\* Lines 716-818: outliers of the column, for a numeric column only.
AIOutliers ==
  /\ fn = "apply_ai_recommendations" /\ pc = "outliers"
  /\ LET method == Rec.outliers.method
         action == Rec.outliers.action
     IN IF method # "none" /\ IsNumeric(cleaned_df, RecCol)
        THEN /\ cleaned_df' = AIOutlierFrame(cleaned_df, RecCol, method, action)
             /\ audit_log' = audit_log \o AIOutlierAudit(cleaned_df, RecCol, method, action)
             /\ report' = [report EXCEPT !.outliers_handled =
                  Put(@, Rec.column_name,
                      [method |-> method, action |-> action,
                       count |-> TrueCount(AIOutlierFlags(Col(cleaned_df, RecCol), method))])]
        ELSE UNCHANGED <<cleaned_df, audit_log, report>>
  /\ pc' = StepAfter(pc)
  /\ UNCHANGED <<inputs, idx, raised>>

Requested(transformation) == transformation \in Rec.value_transformations

\* Line 826: negative cells become 0.
PricesPositiveFrame(d, c) ==
  LET s == Col(d, c)
  IN SetColumn(d, c, [r \in 1..Len(s) |-> IF Negative(s)[r] THEN 0 ELSE s[r]])

\* Line 843: negative cells become their absolute value.
ValuesPositiveFrame(d, c) ==
  LET s == Col(d, c)
  IN SetColumn(d, c, [r \in 1..Len(s) |-> IF Negative(s)[r] THEN Abs(s[r]) ELSE s[r]])

\* Line 857: every cell is rounded to two decimals.
RoundFrame(d, c) ==
  LET s == Col(d, c)
  IN SetColumn(d, c, [r \in 1..Len(s) |-> Round2(s[r])])

\* Line 873: missing cells become 0 and every cell is truncated to an integer.
IntegerFrame(d, c) ==
  LET s == Col(d, c)
  IN [SetColumn(d, c, [r \in 1..Len(s) |-> TruncInt(FillNa(s, 0)[r])])
      EXCEPT !.dtypes[c] = "number"]

\* Line 866: the rounding entry counts every row of the frame.
RoundRowsAffected(d, c) == NRows(d)

\* Line 872: the conversion entry counts the cells that are no integer.
IntegerRowsAffected(d, c) == Len(SelectSeq(Col(d, c), LAMBDA v : ~IsInteger(v)))

\* Lines 824-837: negative cells become 0 when the column's minimum is negative.
AIEnsurePricesPositive ==
  /\ fn = "apply_ai_recommendations" /\ pc = "ensure_prices_positive"
  /\ LET negative_count == TrueCount(Negative(Col(cleaned_df, RecCol)))
     IN IF ~Requested(EnsurePricesPositive)
        THEN /\ pc' = StepAfter(pc)
             /\ UNCHANGED <<inputs, cleaned_df, audit_log, report, idx, raised>>
        ELSE IF HoldsStrings(cleaned_df, RecCol) THEN Raise("TypeError")
        ELSE /\ IF negative_count > 0
                THEN /\ cleaned_df' = PricesPositiveFrame(cleaned_df, RecCol)
                     /\ audit_log' = Append(audit_log,
                          AuditEntry("value_transformation", Rec.column_name,
                                     "ensure_positive_values", negative_count))
                ELSE UNCHANGED <<cleaned_df, audit_log>>
             /\ pc' = StepAfter(pc)
             /\ UNCHANGED <<inputs, report, idx, raised>>

\* Lines 840-854: negative cells become their absolute value.
AIEnsureValuesPositive ==
  /\ fn = "apply_ai_recommendations" /\ pc = "ensure_values_positive"
  /\ LET negative_count == TrueCount(Negative(Col(cleaned_df, RecCol)))
     IN IF ~Requested(EnsureValuesPositive)
        THEN /\ pc' = StepAfter(pc)
             /\ UNCHANGED <<inputs, cleaned_df, audit_log, report, idx, raised>>
        ELSE IF HoldsStrings(cleaned_df, RecCol) THEN Raise("TypeError")
        ELSE /\ IF negative_count > 0
                THEN /\ cleaned_df' = ValuesPositiveFrame(cleaned_df, RecCol)
                     /\ audit_log' = Append(audit_log,
                          AuditEntry("value_transformation", Rec.column_name,
                                     "convert_negative_to_positive", negative_count))
                ELSE UNCHANGED <<cleaned_df, audit_log>>
             /\ pc' = StepAfter(pc)
             /\ UNCHANGED <<inputs, report, idx, raised>>

\* Lines 856-868: every cell is rounded to two decimals and the entry counts
\* every row of the frame.  Series.round on an object column is a no-op or a
\* TypeError, depending on the pandas release.
AIRound ==
  /\ fn = "apply_ai_recommendations" /\ pc = "round"
  /\ LET logged == Append(audit_log,
                     AuditEntry("value_transformation", Rec.column_name,
                                "round_to_currency_precision",
                                RoundRowsAffected(cleaned_df, RecCol)))
     IN IF ~Requested(RoundCurrency)
        THEN /\ pc' = StepAfter(pc)
             /\ UNCHANGED <<inputs, cleaned_df, audit_log, report, idx, raised>>
        ELSE IF IsNumeric(cleaned_df, RecCol)
        THEN /\ cleaned_df' = RoundFrame(cleaned_df, RecCol)
             /\ audit_log' = logged
             /\ pc' = StepAfter(pc)
             /\ UNCHANGED <<inputs, report, idx, raised>>
        ELSE \/ Raise("TypeError")
             \/ /\ audit_log' = logged
                /\ pc' = StepAfter(pc)
                /\ UNCHANGED <<inputs, cleaned_df, report, idx, raised>>

\* Lines 870-886: missing cells become 0 and every cell is truncated to an
\* integer; the entry counts the cells that were no integer.  float(x) on a
\* string raises inside the try block, which leaves the column as it is.
AIConvertToInteger ==
  /\ fn = "apply_ai_recommendations" /\ pc = "convert_to_integer"
  /\ IF Requested(ConvertToInteger) /\ ~HoldsStrings(cleaned_df, RecCol)
     THEN /\ cleaned_df' = IntegerFrame(cleaned_df, RecCol)
          /\ audit_log' = Append(audit_log,
               AuditEntry("value_transformation", Rec.column_name,
                          "convert_to_integer",
                          IntegerRowsAffected(cleaned_df, RecCol)))
     ELSE UNCHANGED <<cleaned_df, audit_log>>
  /\ pc' = StepAfter(pc)
  /\ idx' = idx + 1
  /\ UNCHANGED <<inputs, report, raised>>

\* ------------------------------------------- create_default_recommendations

\* std() > 0, decided exactly: two values at least, not all equal.
StdPositive(s) == Len(DropNaSeries(s)) >= 2 /\ DevSq(s) > 0

\* Lines 384-402: z-score capping when the column is numeric, has more than
\* five values, a positive standard deviation and a cell with z-score above 3.
DefaultOutliers(d, c) ==
  IF /\ IsNumeric(d, c)
     /\ Len(DropNaSeries(Col(d, c))) > 5
     /\ StdPositive(Col(d, c))
     /\ TrueCount(ZScoreOutliers(Col(d, c), ZScoreThreshold)) > 0
  THEN [method |-> "zscore", action |-> "cap"]
  ELSE [method |-> "none", action |-> "none"]

\* Median for every column with a missing value, whatever its type.
DefaultMissingIgnoresType(d, c) ==
  IF NullCount(Col(d, c)) = 0 THEN "none" ELSE "median"

\* Lines 358-381: median for a numeric column with a missing value, mode for
\* any other column with one, none without.
DefaultMissing(d, c) ==
  IF NullCount(Col(d, c)) = 0 THEN "none"
  ELSE IF IsNumeric(d, c) THEN "median"
  ELSE "mode"

typically_positive ==
  { <<"p", "r", "i", "c", "e">>, <<"c", "o", "s", "t">>,
    <<"a", "m", "o", "u", "n", "t">>, <<"q", "u", "a", "n", "t", "i", "t", "y">>,
    <<"s", "t", "o", "c", "k">>, <<"a", "g", "e">>, <<"h", "e", "i", "g", "h", "t">>,
    <<"w", "e", "i", "g", "h", "t">> }

\* Lines 404-415: a numeric column with a negative value and a name that
\* suggests a positive quantity is to be made positive.
DefaultTransformations(d, c) ==
  IF /\ IsNumeric(d, c)
     /\ TrueCount(Negative(Col(d, c))) > 0
     /\ AnyPattern(d.names[c], typically_positive)
  THEN {EnsureValuesPositive}
  ELSE {}

\* create_default_recommendations (lines 350-440): one recommendation per
\* column, in column order, and duplicate removal when a row repeats.
create_default_recommendations(d) ==
  [duplicate_removal |-> NRows(d) - NRows(DropDuplicates(d, AllColumns(d))) > 0,
   column_recommendations |->
     [c \in 1..NCols(d) |->
        [column_name |-> d.names[c],
         missing_values |-> DefaultMissing(d, c),
         outliers |-> DefaultOutliers(d, c),
         value_transformations |-> DefaultTransformations(d, c)]]]

\* app.py lines 543-545: the basic cleaning of /clean makes the default
\* recommendations and applies them.
CreateDefault ==
  /\ fn = "apply_ai_recommendations" /\ pc = "create_default"
  /\ recommendations' = create_default_recommendations(df)
  /\ pc' = "duplicates"
  /\ UNCHANGED <<fn, df, options, answer, chain_result, cleaned_df, audit_log, report,
                 idx, raised>>

\* ------------------------------------- get_ai_cleaning_recommendations

ecommerce_keywords ==
  { <<"p", "r", "o", "d", "u", "c", "t">>, <<"p", "r", "i", "c", "e">>,
    <<"d", "i", "s", "c", "o", "u", "n", "t">>, <<"s", "a", "l", "e">>,
    <<"o", "r", "d", "e", "r">>, <<"c", "u", "s", "t", "o", "m", "e", "r">>,
    <<"i", "t", "e", "m">>, <<"q", "u", "a", "n", "t", "i", "t", "y">>,
    <<"p", "u", "r", "c", "h", "a", "s", "e">>, <<"c", "a", "r", "t">>,
    <<"s", "h", "i", "p", "p", "i", "n", "g">>,
    <<"i", "n", "v", "e", "n", "t", "o", "r", "y">>,
    <<"c", "a", "t", "e", "g", "o", "r", "y">>, <<"s", "k", "u">>,
    <<"t", "r", "a", "n", "s", "a", "c", "t", "i", "o", "n">>,
    <<"p", "a", "y", "m", "e", "n", "t">>, <<"r", "e", "v", "e", "n", "u", "e">>,
    <<"r", "e", "v", "i", "e", "w">> }

\* detect_ecommerce_domain (lines 105-123): three or more columns whose name
\* holds an e-commerce keyword.
detect_ecommerce_domain(d) ==
  Cardinality({ c \in 1..NCols(d) : AnyPattern(d.names[c], ecommerce_keywords) }) >= 3

price_patterns ==
  { <<"p", "r", "i", "c", "e">>, <<"c", "o", "s", "t">>,
    <<"r", "e", "v", "e", "n", "u", "e">> }

quantity_patterns ==
  { <<"q", "u", "a", "n", "t", "i", "t", "y">>, <<"s", "t", "o", "c", "k">>,
    <<"i", "n", "v", "e", "n", "t", "o", "r", "y">> }

date_patterns == { <<"d", "a", "t", "e">>, <<"t", "i", "m", "e">> }

id_patterns == { <<"i", "d">>, <<"c", "o", "d", "e">>, <<"s", "k", "u">> }

\* The rules with the identifier test first and the price test last.
EcommerceRuleIdFirst(d, rec) ==
  LET column == rec.column_name
  IN IF ~HasColumn(d, column) THEN rec
     ELSE IF AnyPattern(column, id_patterns)
     THEN [rec EXCEPT !.missing_values = "drop",
                      !.outliers = [method |-> "none", action |-> "none"],
                      !.value_transformations =
                         {"Check ID format consistency",
                          "Validate against expected patterns (if SKUs or product codes have a standard format)"}]
     ELSE IF AnyPattern(column, quantity_patterns)
     THEN [rec EXCEPT !.missing_values = "mode",
                      !.outliers = [method |-> "zscore", action |-> "cap"],
                      !.value_transformations =
                         {ConvertToInteger, "Ensure non-negative values",
                          "Replace zero quantities with a minimum value if business logic requires"}]
     ELSE IF AnyPattern(column, date_patterns)
     THEN [rec EXCEPT !.missing_values = "drop",
                      !.outliers = [method |-> "none", action |-> "none"],
                      !.value_transformations =
                         {"Standardize to ISO format (YYYY-MM-DD)",
                          "Remove future dates if they exist",
                          "Flag very old dates for review"}]
     ELSE IF AnyPattern(column, price_patterns)
     THEN [rec EXCEPT !.missing_values = "median",
                      !.outliers = [method |-> "iqr", action |-> "cap"],
                      !.value_transformations = {EnsurePricesPositive, RoundCurrency}]
     ELSE rec

\* Lines 138-233: the recommendation for a price, quantity, date or identifier
\* column of the frame is overwritten; any other is kept.
EcommerceRule(d, rec) ==
  LET column == rec.column_name
  IN IF ~HasColumn(d, column) THEN rec
     ELSE IF AnyPattern(column, price_patterns)
     THEN [rec EXCEPT !.missing_values = "median",
                      !.outliers = [method |-> "iqr", action |-> "cap"],
                      !.value_transformations = {EnsurePricesPositive, RoundCurrency}]
     ELSE IF AnyPattern(column, quantity_patterns)
     THEN [rec EXCEPT !.missing_values = "mode",
                      !.outliers = [method |-> "zscore", action |-> "cap"],
                      !.value_transformations =
                         {ConvertToInteger, "Ensure non-negative values",
                          "Replace zero quantities with a minimum value if business logic requires"}]
     ELSE IF AnyPattern(column, date_patterns)
     THEN [rec EXCEPT !.missing_values = "drop",
                      !.outliers = [method |-> "none", action |-> "none"],
                      !.value_transformations =
                         {"Standardize to ISO format (YYYY-MM-DD)",
                          "Remove future dates if they exist",
                          "Flag very old dates for review"}]
     ELSE IF AnyPattern(column, id_patterns)
     THEN [rec EXCEPT !.missing_values = "drop",
                      !.outliers = [method |-> "none", action |-> "none"],
                      !.value_transformations =
                         {"Check ID format consistency",
                          "Validate against expected patterns (if SKUs or product codes have a standard format)"}]
     ELSE rec

\* apply_ecommerce_rules (lines 125-244).
apply_ecommerce_rules(d, recs) ==
  [duplicate_removal |-> TRUE,
   column_recommendations |->
     [k \in 1..Len(recs.column_recommendations) |->
        EcommerceRule(d, recs.column_recommendations[k])]]

\* The recommendations when a failure of the language model leaves none.
NoRecommendationsOnFailure(d, result) ==
  IF result.kind # "parsed"
  THEN [duplicate_removal |-> FALSE, column_recommendations |-> <<>>]
  ELSE IF detect_ecommerce_domain(d) THEN apply_ecommerce_rules(d, result.recommendations)
  ELSE result.recommendations

\* get_ai_cleaning_recommendations (lines 246-348).  result is the outcome of
\* asking the language model: kind "no_key" (no API key, line 253), "raises"
\* (the chain fails, line 334), "unparsable" (the parser fails, line 337) or
\* "parsed" with the recommendations parsed.
get_ai_cleaning_recommendations(d, result) ==
  IF result.kind # "parsed" THEN create_default_recommendations(d)
  ELSE IF detect_ecommerce_domain(d) THEN apply_ecommerce_rules(d, result.recommendations)
  ELSE result.recommendations

\* ai_clean_dataset, line 900: the recommendations are those of
\* get_ai_cleaning_recommendations; apply_ai_recommendations follows.
GetRecommendations ==
  /\ fn = "apply_ai_recommendations" /\ pc = "get_recommendations"
  /\ recommendations' = get_ai_cleaning_recommendations(df, ChainResult)
  /\ pc' = "duplicates"
  /\ UNCHANGED <<fn, df, options, answer, chain_result, cleaned_df, audit_log, report,
                 idx, raised>>

\* ------------------------------------------------------ clean_dataset, by step

\* handle_missing_values raises: the mean or median of strings is a TypeError,
\* and mode()[0] of a column without values a KeyError.
HandleMissingRaises(d, c, method) ==
  IF method \in {"mean", "median"} /\ HoldsStrings(d, c) THEN "TypeError"
  ELSE IF method = "mode" /\ Mode(Col(d, c)) = <<>> THEN "KeyError"
  ELSE "none"

\* handle_missing_values (lines 22-35), when it returns: the filled series.
handle_missing_values(d, c, method) ==
  LET s == Col(d, c)
  IN IF method = "mean" THEN FillNa(s, Mean(s))
     ELSE IF method = "median" THEN FillNa(s, Median(s))
     ELSE IF method = "mode" THEN FillNa(s, Mode(s)[1])
     ELSE s

\* detect_outliers (lines 6-20): z-score for "zscore", IQR for any other method.
detect_outliers(s, method, threshold) ==
  IF method = "zscore" THEN ZScoreOutliers(s, threshold)
  ELSE IqrOutliers(s, threshold)

\* Lines 86-87: every flagged cell becomes mean + threshold*std.
CapZScore(s, threshold) ==
  LET z == ZScoreOutliers(s, threshold)
  IN [r \in 1..Len(s) |-> IF z[r] THEN Mean(s) + TimesStd(s, threshold) ELSE s[r]]

\* Lines 54-66: one pass of the loop over the frame's columns.
CleanMissing ==
  /\ fn = "clean_dataset" /\ pc = "missing" /\ idx <= NCols(cleaned_df)
  /\ LET column == cleaned_df.names[idx]
         method == options.missing_values[column]
     IN IF column \notin DOMAIN options.missing_values
        THEN /\ idx' = idx + 1
             /\ UNCHANGED <<inputs, cleaned_df, audit_log, report, pc, raised>>
        ELSE IF /\ method \in {"mean", "median", "mode"}
                /\ HandleMissingRaises(cleaned_df, idx, method) # "none"
        THEN Raise(HandleMissingRaises(cleaned_df, idx, method))
        ELSE /\ cleaned_df' =
                  IF method = "drop" THEN DropNaRows(cleaned_df, idx)
                  ELSE IF method \in {"mean", "median", "mode"}
                  THEN SetColumn(cleaned_df, idx,
                                 handle_missing_values(cleaned_df, idx, method))
                  ELSE cleaned_df
             /\ report' = [report EXCEPT !.missing_values_handled = Put(@, column, method)]
             /\ idx' = idx + 1
             /\ UNCHANGED <<inputs, audit_log, pc, raised>>

\* Lines 68-72: drop_duplicates() on all columns, after the missing values.
CleanDuplicates ==
  /\ fn = "clean_dataset" /\ pc = "missing" /\ idx > NCols(cleaned_df)
  /\ IF options.remove_duplicates
     THEN LET after == DropDuplicates(cleaned_df, AllColumns(cleaned_df))
          IN /\ cleaned_df' = after
             /\ report' = [report EXCEPT !.duplicates_removed =
                             NRows(cleaned_df) - NRows(after)]
     ELSE UNCHANGED <<cleaned_df, report>>
  /\ pc' = "outliers"
  /\ idx' = 1
  /\ UNCHANGED <<inputs, audit_log, raised>>

\* The frame after lines 81-93 for one column.
CleanOutlierFrame(d, c, o) ==
  LET s == Col(d, c)
  IN IF o.action = "remove" THEN RemoveFlagged(d, detect_outliers(s, o.method, o.threshold))
     ELSE IF o.action = "cap"
     THEN SetColumn(d, c, IF o.method = "zscore" THEN CapZScore(s, o.threshold)
                          ELSE CapIqr(s, o.threshold))
     ELSE d

\* Lines 75-100: one pass of the loop over the numeric columns.
CleanOutliers ==
  /\ fn = "clean_dataset" /\ pc = "outliers" /\ idx <= NCols(cleaned_df)
  /\ LET column == cleaned_df.names[idx]
         o == options.outliers[column]
     IN IF /\ IsNumeric(cleaned_df, idx)
           /\ column \in DOMAIN options.outliers
           /\ o.enabled
        THEN /\ cleaned_df' = CleanOutlierFrame(cleaned_df, idx, o)
             /\ report' = [report EXCEPT !.outliers_handled =
                  Put(@, column,
                      [method |-> o.method, action |-> o.action,
                       threshold |-> o.threshold,
                       count |-> TrueCount(detect_outliers(Col(cleaned_df, idx),
                                                           o.method, o.threshold))])]
        ELSE UNCHANGED <<cleaned_df, report>>
  /\ idx' = idx + 1
  /\ UNCHANGED <<inputs, audit_log, pc, raised>>

\* Lines 102-106: the final counts.
CleanFinal ==
  /\ fn = "clean_dataset" /\ pc = "outliers" /\ idx > NCols(cleaned_df)
  /\ report' = FinalReport(report, cleaned_df)
  /\ pc' = "done"
  /\ UNCHANGED <<inputs, cleaned_df, audit_log, idx, raised>>

\* ------------------------------------------------- generate_cleaning_report

\* A line of the summary: the text of its f-string, with its bullet written
\* "*", and the values printed in it, in order.
Line(text, values) == [text |-> text, values |-> values]

\* sum(info['count'] ...) over the columns of report['outliers_handled'].
RECURSIVE SumCounts(_, _)
SumCounts(handled, columns) ==
  IF columns = {} THEN 0
  ELSE LET column == CHOOSE c \in columns : TRUE
       IN handled[column].count + SumCounts(handled, columns \ {column})

\* Lines 145-151.
method_descriptions(method) ==
  CASE method = "none" -> "Left as is"
    [] method = "mean" -> "Filled with average values"
    [] method = "median" -> "Filled with median values"
    [] method = "mode" -> "Filled with most common values"
    [] method = "drop" -> "Rows with missing values were removed"
    [] OTHER -> method

\* Lines 134-160: one line per method of report['missing_values_handled'] with
\* the columns it was used on.  The code lists the methods in the order of
\* the dictionary; the lines are listed here in a fixed order of the methods.
MissingMethodLines(handled) ==
  LET columns(method) == {c \in DOMAIN handled : handled[c] = method}
      used == SelectSeq(<<"none", "mean", "median", "mode", "drop">>,
                        LAMBDA method : columns(method) # {})
  IN [k \in 1..Len(used) |->
        IF used[k] = "none" /\ Cardinality(columns(used[k])) >= 5
        THEN Line("  * {description}: {n} columns",
                  <<method_descriptions(used[k]), Cardinality(columns(used[k]))>>)
        ELSE Line("  * {description}: {columns}",
                  <<method_descriptions(used[k]), columns(used[k])>>)]

\* Lines 178-181.
action_descriptions(action) ==
  CASE action = "remove" -> "removed from dataset"
    [] action = "cap" -> "capped at normal range"
    [] OTHER -> action

\* Lines 168-185: one line per method and action of report['outliers_handled']
\* that flagged a cell, with the columns and their counts; in a fixed order.
OutlierMethodLines(handled) ==
  LET columns(key) ==
        {c \in DOMAIN handled : /\ handled[c].method = key[1]
                                /\ handled[c].action = key[2]
                                /\ handled[c].count > 0}
      keys == << <<"zscore", "remove">>, <<"zscore", "cap">>,
                 <<"iqr", "remove">>, <<"iqr", "cap">> >>
      used == SelectSeq(keys, LAMBDA key : columns(key) # {})
  IN [k \in 1..Len(used) |->
        Line("  * Using {method} method: {action}: {columns}",
             <<used[k][1], action_descriptions(used[k][2]),
               {<<c, handled[c].count>> : c \in columns(used[k])}>>)]

\* generate_cleaning_report (lines 108-189): the lines of the summary.
generate_cleaning_report(r) ==
  LET rows_diff == r.original_rows - r.final_rows
      missing_before == SumSeq(r.missing_values_before)
      missing_after == SumSeq(r.missing_values_after)
      outlier_count == SumCounts(r.outliers_handled, DOMAIN r.outliers_handled)
  IN << Line("Dataset Cleaning Summary", <<>>),
        Line("* Your dataset started with {} rows and {} columns",
             <<r.original_rows, r.original_columns>>) >>
     \o (IF rows_diff > 0
         THEN << Line("* {} rows were removed during the cleaning process", <<rows_diff>>) >>
         ELSE IF r.original_rows = r.final_rows
         THEN << Line("* No rows were removed during cleaning", <<>>) >>
         ELSE <<>>)
     \o (IF r.duplicates_removed > 0
         THEN << Line("* Removed {} duplicate rows to improve data quality",
                      <<r.duplicates_removed>>) >>
         ELSE <<>>)
     \o (IF missing_before > 0
         THEN << IF missing_before - missing_after > 0
                 THEN Line("* Successfully handled {} out of {} missing values",
                           <<missing_before - missing_after, missing_before>>)
                 ELSE Line("* Your dataset had {} missing values", <<missing_before>>) >>
              \o MissingMethodLines(r.missing_values_handled)
         ELSE <<>>)
     \o (IF DOMAIN r.outliers_handled # {} /\ outlier_count > 0
         THEN << Line("* Detected and handled {} outliers across {} columns",
                      <<outlier_count, Cardinality(DOMAIN r.outliers_handled)>>) >>
              \o OutlierMethodLines(r.outliers_handled)
         ELSE <<>>)
     \o << Line("* Final dataset has {} rows and {} columns",
                <<r.final_rows, r.final_columns>>) >>

\* The step about to run binds the name cleaned_df to a new object instead of
\* assigning into the object it names: drop_duplicates (lines 600, 603),
\* dropna (639) and cleaned_df[~outliers] (736) of apply_ai_recommendations,
\* dropna (62), drop_duplicates (71) and cleaned_df[~outliers] (83) of
\* clean_dataset. Every other statement that changes the frame assigns into it.
Rebinds ==
  IF fn = "apply_ai_recommendations"
  THEN \/ pc = "duplicates" /\ recommendations.duplicate_removal
       \/ pc = "missing" /\ Rec.missing_values = "drop"
       \/ /\ pc = "outliers"
          /\ Rec.outliers.method # "none"
          /\ IsNumeric(cleaned_df, RecCol)
          /\ Rec.outliers.action = "remove"
          /\ TrueCount(AIOutlierFlags(Col(cleaned_df, RecCol), Rec.outliers.method)) > 0
  ELSE \/ /\ pc = "missing" /\ idx <= NCols(cleaned_df)
          /\ cleaned_df.names[idx] \in DOMAIN options.missing_values
          /\ options.missing_values[cleaned_df.names[idx]] = "drop"
       \/ pc = "missing" /\ idx > NCols(cleaned_df) /\ options.remove_duplicates
       \/ /\ pc = "outliers" /\ idx <= NCols(cleaned_df)
          /\ IsNumeric(cleaned_df, idx)
          /\ cleaned_df.names[idx] \in DOMAIN options.outliers
          /\ options.outliers[cleaned_df.names[idx]].enabled
          /\ options.outliers[cleaned_df.names[idx]].action = "remove"

\* The caller's frame across one step: an assignment into the object the caller
\* holds shows in the caller's frame, a rebinding leaves that object behind.
CallerFrame ==
  caller_df' = IF ~caller_df.same_object THEN caller_df
               ELSE IF Rebinds THEN [caller_df EXCEPT !.same_object = FALSE]
               ELSE [caller_df EXCEPT !.frame = cleaned_df']

Next ==
  \/ GetRecommendations /\ CallerFrame /\ UNCHANGED host
  \/ CreateDefault /\ CallerFrame /\ UNCHANGED host
  \/ AIDuplicates /\ CallerFrame /\ UNCHANGED host
  \/ AINextColumn /\ CallerFrame /\ UNCHANGED host
  \/ AIMissing /\ CallerFrame /\ UNCHANGED host
  \/ AIOutliers /\ CallerFrame /\ UNCHANGED host
  \/ AIEnsurePricesPositive /\ CallerFrame /\ UNCHANGED host
  \/ AIEnsureValuesPositive /\ CallerFrame /\ UNCHANGED host
  \/ AIRound /\ CallerFrame /\ UNCHANGED host
  \/ AIConvertToInteger /\ CallerFrame /\ UNCHANGED host
  \/ CleanMissing /\ CallerFrame /\ UNCHANGED host
  \/ CleanDuplicates /\ CallerFrame /\ UNCHANGED host
  \/ CleanOutliers /\ CallerFrame /\ UNCHANGED host
  \/ CleanFinal /\ CallerFrame /\ UNCHANGED host

\* ----------------------------------------------------------------- inputs

\* The most rows of a frame of the small family.
MaxRows == 4

\* The most column recommendations of a list.
MaxRecs == 2

\* The most rows of a frame of the long family.
LongRows == 11

price == <<"p", "r", "i", "c", "e">>
city == <<"c", "i", "t", "y">>
notes == <<"n", "o", "t", "e", "s">>

\* Codes of two strings.
Berlin == 1
Paris == 2

\* Rows of a frame with a numeric column "price" and an object column "city":
\* prices 0.0, missing and -1.016.
RowPool == { <<0, Berlin>>, <<NaN, Berlin>>, <<-1016, Paris>> }

SeqsUpTo(S, n) == UNION {[1..k -> S] : k \in 0..n}

\* The small family: every frame of up to MaxRows rows of the pool.
Frames ==
  { [names |-> <<price, city>>, dtypes |-> <<"number", "object">>, rows |-> rows] :
      rows \in SeqsUpTo(RowPool, MaxRows) }

\* The long family: one numeric column "price" of up to LongRows rows, a run of
\* one price followed by a run of another (missing, 0.0, 0.128 or -0.128).
LongPrices == {NaN, 0, 128, -128}

LongFrames ==
  { [names |-> <<price>>, dtypes |-> <<"number">>,
     rows |-> [r \in 1..n |-> IF r <= k THEN <<v>> ELSE <<w>>]] :
      <<n, k, v, w>> \in { t \in (0..LongRows) \X (0..LongRows) \X LongPrices \X LongPrices :
                            t[2] <= t[1] } }

Methods == {"none", "drop", "mean", "median", "mode"}

OutlierChoices ==
  { [method |-> "none", action |-> "none"] }
  \cup [method : {"zscore", "iqr"}, action : {"remove", "cap"}]

\* The lists of directives the code itself writes into recommendations (lines
\* 161-164, 183-187, 415) and the empty list.
TransformationLists ==
  { {},
    {EnsureValuesPositive},
    {RoundCurrency},
    {EnsurePricesPositive, RoundCurrency},
    {ConvertToInteger, "Ensure non-negative values"} }

\* Every recommendation for the numeric column, a selection for the object
\* column, and one for a column the frame lacks.
ColumnRecs ==
  [column_name : {price}, missing_values : Methods, outliers : OutlierChoices,
   value_transformations : TransformationLists]
  \cup [column_name : {city}, missing_values : {"none", "drop", "mean", "mode"},
        outliers : { [method |-> "none", action |-> "none"],
                     [method |-> "iqr", action |-> "cap"] },
        value_transformations : TransformationLists]
  \cup { [column_name |-> notes, missing_values |-> "mean",
          outliers |-> [method |-> "iqr", action |-> "cap"],
          value_transformations |-> {RoundCurrency}] }

\* The recommendations lists are drawn from.
RecPool ==
  { [column_name |-> price, missing_values |-> "median",
     outliers |-> [method |-> "iqr", action |-> "cap"],
     value_transformations |-> {EnsurePricesPositive, RoundCurrency}],
    [column_name |-> price, missing_values |-> "drop",
     outliers |-> [method |-> "iqr", action |-> "remove"],
     value_transformations |-> {EnsureValuesPositive}],
    [column_name |-> notes, missing_values |-> "mean",
     outliers |-> [method |-> "iqr", action |-> "cap"],
     value_transformations |-> {RoundCurrency}] }

\* The recommendations for the long family: outlier handling of every kind,
\* with or without median imputation before it.
LongRecs ==
  [column_name : {price}, missing_values : {"none", "median"},
   outliers : OutlierChoices, value_transformations : {{}}]

Answers ==
  { [kind |-> "no_key", columns |-> <<>>],
    [kind |-> "all_columns", columns |-> <<>>],
    [kind |-> "columns", columns |-> <<city, notes>>] }

NoRecommendations == [duplicate_removal |-> FALSE, column_recommendations |-> <<>>]

NoOptions == [missing_values |-> <<>>, remove_duplicates |-> FALSE, outliers |-> <<>>]

NoAnswer == [kind |-> "no_key", columns |-> <<>>]

\* A key that set_api_key accepts (app.py line 633): "sk-" and 17 more characters.
SomeKey == <<"s", "k", "-">> \o [k \in 1..17 |-> "x"]

\* No request is being served.
NoRoute == [name |-> "none"]

\* A call made outside a request: the key is configured unless the call is one
\* in which the language model is not asked for want of a key.
HostIdle(has_key) ==
  /\ environ = IF has_key THEN SomeKey ELSE NoKey
  /\ folder = <<>>
  /\ route = NoRoute

\* The language model was not asked for recommendations.
NoResult == [kind |-> "none", recommendations |-> NoRecommendations]

\* The state on entry to apply_ai_recommendations (lines 446-463).
EnterApply(frame, recs, ans) ==
  /\ fn = "apply_ai_recommendations"
  /\ df = frame
  /\ recommendations = recs
  /\ options = NoOptions
  /\ answer = ans
  /\ chain_result = NoResult
  /\ HostIdle(ans.kind # "no_key")
  /\ cleaned_df = copy(frame).frame
  /\ caller_df = [frame |-> frame, same_object |-> copy(frame).same_object]
  /\ audit_log = <<>>
  /\ report = InitialReport(frame)
  /\ pc = "duplicates"
  /\ idx = 1
  /\ raised = "none"

\* The state before the basic cleaning of /clean (app.py line 543).
EnterDefault(frame) ==
  /\ fn = "apply_ai_recommendations"
  /\ df = frame
  /\ recommendations = NoRecommendations
  /\ options = NoOptions
  /\ answer = NoAnswer
  /\ chain_result = NoResult
  /\ HostIdle(FALSE)
  /\ cleaned_df = copy(frame).frame
  /\ caller_df = [frame |-> frame, same_object |-> copy(frame).same_object]
  /\ audit_log = <<>>
  /\ report = InitialReport(frame)
  /\ pc = "create_default"
  /\ idx = 1
  /\ raised = "none"

\* The state on entry to ai_clean_dataset (line 895).
EnterAIClean(frame, result, ans) ==
  /\ fn = "apply_ai_recommendations"
  /\ df = frame
  /\ recommendations = NoRecommendations
  /\ options = NoOptions
  /\ answer = ans
  /\ chain_result = result
  /\ HostIdle(result.kind # "no_key")
  /\ cleaned_df = copy(frame).frame
  /\ caller_df = [frame |-> frame, same_object |-> copy(frame).same_object]
  /\ audit_log = <<>>
  /\ report = InitialReport(frame)
  /\ pc = "get_recommendations"
  /\ idx = 1
  /\ raised = "none"

\* The state on entry to clean_dataset (lines 42-52).
EnterClean(frame, opts) ==
  /\ fn = "clean_dataset"
  /\ df = frame
  /\ recommendations = NoRecommendations
  /\ options = opts
  /\ answer = NoAnswer
  /\ chain_result = NoResult
  /\ HostIdle(FALSE)
  /\ cleaned_df = copy(frame).frame
  /\ caller_df = [frame |-> frame, same_object |-> copy(frame).same_object]
  /\ audit_log = <<>>
  /\ report = InitialReport(frame)
  /\ pc = "missing"
  /\ idx = 1
  /\ raised = "none"

\* options['missing_values']: the columns given a method other than "absent".
MissingDict(price_method, city_method) ==
  [name \in {n \in {price, city} :
               (IF n = price THEN price_method ELSE city_method) # "absent"} |->
     IF name = price THEN price_method ELSE city_method]

OutlierOption(method, action, threshold) ==
  [enabled |-> TRUE, method |-> method, action |-> action, threshold |-> threshold]

\* options['outliers']: nothing, or z-score at 1.0 or IQR at 1.5 on "price".
OutlierDicts ==
  { <<>> } \cup
  { (price :> OutlierOption(o[1], o[2], o[3])) :
      o \in ({"zscore"} \X {"remove", "cap"} \X {2})
            \cup ({"iqr"} \X {"remove", "cap"} \X {3}) }

\* options['outliers'] for the long family: z-score at 3.0 and 1.0, IQR at 1.5.
LongOutlierDicts ==
  { (price :> OutlierOption(o[1], o[2], o[3])) :
      o \in ({"zscore"} \X {"remove", "cap"} \X {6, 2})
            \cup ({"iqr"} \X {"remove", "cap"} \X {3}) }

quantity == <<"q", "u", "a", "n", "t", "i", "t", "y">>
order_id == <<"o", "r", "d", "e", "r", "_", "i", "d">>

\* Rows of a frame with numeric columns "price", "quantity" and "order_id":
\* quantities 1.0, missing and 2.5.
EcommerceRowPool == { <<0, 1000, 1000>>, <<NaN, NaN, 2000>>, <<-1016, 2500, 1000>> }

\* The e-commerce family: every frame of one or two rows of that pool.
EcommerceFrames ==
  { [names |-> <<price, quantity, order_id>>,
     dtypes |-> <<"number", "number", "number">>, rows |-> rows] :
      rows \in [1..1 -> EcommerceRowPool] \cup [1..2 -> EcommerceRowPool] }

\* What asking the language model for recommendations yields: no API key, a
\* failing call, output the parser rejects, or recommendations.
ChainResults ==
  { [kind |-> k, recommendations |-> NoRecommendations] :
      k \in {"no_key", "raises", "unparsable"} }
  \cup
  { [kind |-> "parsed",
     recommendations |->
       [duplicate_removal |-> FALSE,
        column_recommendations |->
          << [column_name |-> price, missing_values |-> "mean",
              outliers |-> [method |-> "zscore", action |-> "remove"],
              value_transformations |-> {}],
             [column_name |-> quantity, missing_values |-> "drop",
              outliers |-> [method |-> "none", action |-> "none"],
              value_transformations |-> {}],
             [column_name |-> notes, missing_values |-> "mean",
              outliers |-> [method |-> "iqr", action |-> "cap"],
              value_transformations |-> {RoundCurrency}] >>]] }

\* ai_clean_dataset on a frame under an outcome of asking for recommendations
\* and one of asking for a duplicate key; both calls find the API key or
\* neither does.
AICleanOn(frames) ==
  \E frame \in frames, result \in ChainResults,
     ans \in { [kind |-> "no_key", columns |-> <<>>],
               [kind |-> "raises", columns |-> <<>>],
               [kind |-> "columns", columns |-> <<city, notes>>] } :
     /\ (result.kind = "no_key") <=> (ans.kind = "no_key")
     /\ EnterAIClean(frame, result, ans)

\* ai_clean_dataset on a small frame or a frame of the e-commerce family.
InitAIClean == AICleanOn(Frames \cup EcommerceFrames)

\* ai_clean_dataset on a frame of the e-commerce family.
InitAICleanEcommerce == AICleanOn(EcommerceFrames)

\* Lists of recommendations for a small frame, with and without duplicate
\* removal, under every outcome of asking the language model.
InitList ==
  \E frame \in Frames, dup \in BOOLEAN, recs \in SeqsUpTo(RecPool, MaxRecs),
     ans \in Answers :
     /\ ~dup => ans = NoAnswer
     /\ EnterApply(frame,
                   [duplicate_removal |-> dup, column_recommendations |-> recs], ans)

\* One recommendation of any kind for a small frame.
InitColumn ==
  \E frame \in Frames, rec \in ColumnRecs :
     EnterApply(frame,
                [duplicate_removal |-> FALSE, column_recommendations |-> <<rec>>],
                NoAnswer)

\* The default recommendations for a small frame.
InitDefault == \E frame \in Frames : EnterDefault(frame)

\* clean_dataset on a small frame under every choice of options.
InitClean ==
  \E frame \in Frames, pm \in Methods \cup {"absent"}, cm \in {"absent", "mode"},
     dup \in BOOLEAN, o \in OutlierDicts :
     EnterClean(frame,
                [missing_values |-> MissingDict(pm, cm), remove_duplicates |-> dup,
                 outliers |-> o])

\* options['outliers'] naming the object column: nothing, IQR capping at 1.5
\* or z-score removal at 1.0 on "city".
ObjectOutlierDicts ==
  { <<>>,
    (city :> OutlierOption("iqr", "cap", 3)),
    (city :> OutlierOption("zscore", "remove", 2)) }

\* clean_dataset on a small frame with numeric methods asked for the object
\* column.
InitCleanObject ==
  \E frame \in Frames, cm \in {"absent", "mean", "median"}, o \in ObjectOutlierDicts :
     EnterClean(frame,
                [missing_values |-> MissingDict("absent", cm),
                 remove_duplicates |-> FALSE, outliers |-> o])

\* clean_dataset on a small frame with duplicate removal alone.
InitCleanDuplicates ==
  \E frame \in Frames :
     EnterClean(frame, [missing_values |-> <<>>, remove_duplicates |-> TRUE,
                        outliers |-> <<>>])

\* Both functions, the default recommendations and ai_clean_dataset on a long
\* frame.
InitLong ==
  \E frame \in LongFrames :
     \/ \E rec \in LongRecs :
           EnterApply(frame,
                      [duplicate_removal |-> FALSE, column_recommendations |-> <<rec>>],
                      NoAnswer)
     \/ EnterDefault(frame)
     \/ EnterAIClean(frame, [kind |-> "raises", recommendations |-> NoRecommendations],
                     [kind |-> "raises", columns |-> <<>>])
     \/ \E pm \in {"absent", "median"}, o \in LongOutlierDicts :
           EnterClean(frame,
                      [missing_values |-> MissingDict(pm, "absent"),
                       remove_duplicates |-> FALSE, outliers |-> o])

\* The most rows of a frame of the key family.
MaxKeyRows == 6

user_id == <<"u", "s", "e", "r", "_", "i", "d">>
Email == <<"E", "m", "a", "i", "l">>
full_name == <<"n", "a", "m", "e">>
user == <<"u", "s", "e", "r">>
phone == <<"p", "h", "o", "n", "e">>

\* A numeric column of n cells with u distinct values: 1..u and then u again
\* ("last"), 1..u and then 1 again ("first"), or 1..u and then missing.
KeyColumn(n, pattern, u) ==
  [r \in 1..n |->
     IF r <= u THEN r
     ELSE IF pattern = "last" THEN u
     ELSE IF pattern = "first" THEN 1
     ELSE NaN]

KeyColumns(n) ==
  { KeyColumn(n, pattern, u) :
      <<pattern, u>> \in ({"last", "first"} \X (1..n)) \cup ({"missing"} \X (0..n)) }

\* The key family: two numeric columns of up to MaxKeyRows rows under three
\* pairs of names, and four columns named after persons and contacts, each
\* with one, two or all values distinct.
KeyFrames ==
  { [names |-> names, dtypes |-> <<"number", "number">>,
     rows |-> [r \in 1..Len(a) |-> <<a[r], b[r]>>]] :
      <<names, a, b>> \in UNION { { <<user_id, city>>, <<city, price>>, <<Email, city>> }
                                   \X KeyColumns(n) \X KeyColumns(n) :
                                   n \in 0..MaxKeyRows } }
  \cup
  { [names |-> <<full_name, Email, user, phone>>,
     dtypes |-> <<"number", "number", "number", "number">>,
     rows |-> [r \in 1..n |-> [c \in 1..4 |-> KeyColumn(n, "last", u[c])[r]]]] :
      <<n, u>> \in UNION { {n} \X [1..4 -> {1, 2, n}] : n \in 1..MaxKeyRows } }

\* What asking the language model for a duplicate key yields: no API key, a
\* failing call, "all_columns", or a list of names of which one or none is a
\* column of the frame.
KeyAnswers ==
  { [kind |-> "no_key", columns |-> <<>>],
    [kind |-> "raises", columns |-> <<>>],
    [kind |-> "all_columns", columns |-> <<>>],
    [kind |-> "columns", columns |-> <<notes, city>>],
    [kind |-> "columns", columns |-> <<notes>>] }

\* Recommendations for a frame of the key family: for "notes", which no frame
\* has, and for "city" and "price", which some have.
KeyRecPool ==
  { [column_name |-> notes, missing_values |-> "mean",
     outliers |-> [method |-> "iqr", action |-> "cap"],
     value_transformations |-> {RoundCurrency}],
    [column_name |-> city, missing_values |-> "drop",
     outliers |-> [method |-> "none", action |-> "none"],
     value_transformations |-> {}],
    [column_name |-> price, missing_values |-> "median",
     outliers |-> [method |-> "none", action |-> "none"],
     value_transformations |-> {RoundCurrency}] }

\* options of clean_dataset naming "notes", which no frame has, next to
\* "city" and "price".
KeyOptions ==
  [missing_values : { (notes :> "mean") @@ (city :> "drop"),
                      (notes :> "mode") @@ (price :> "median") },
   remove_duplicates : {TRUE},
   outliers : { <<>>, (notes :> OutlierOption("zscore", "remove", 2))
                        @@ (price :> OutlierOption("iqr", "cap", 3)) }]

\* Duplicate removal alone on a frame of the key family, under every outcome
\* of asking the language model.
InitKey ==
  \E frame \in KeyFrames, ans \in KeyAnswers :
     EnterApply(frame, [duplicate_removal |-> TRUE, column_recommendations |-> <<>>],
                ans)

\* Lists of recommendations for a frame of the key family of up to two rows.
InitKeyRecs ==
  \E frame \in KeyFrames, recs \in SeqsUpTo(KeyRecPool, MaxRecs) :
     /\ NRows(frame) <= 2
     /\ EnterApply(frame, [duplicate_removal |-> FALSE, column_recommendations |-> recs],
                   NoAnswer)

\* The default recommendations, clean_dataset and ai_clean_dataset on a frame
\* of the key family.
InitKeyOther ==
  \E frame \in KeyFrames :
     \/ EnterDefault(frame)
     \/ \E opts \in KeyOptions : NRows(frame) <= 2 /\ EnterClean(frame, opts)
     \/ NRows(frame) <= 2 /\ AICleanOn({frame})

\* A one-row frame whose columns fall into two categories of the e-commerce
\* rules at once (price and identifier, quantity and date, date and
\* identifier), into one (identifier), and into none.
Price_ID == <<"P", "r", "i", "c", "e", "_", "I", "D">>
inventory_time ==
  <<"i", "n", "v", "e", "n", "t", "o", "r", "y", "_", "t", "i", "m", "e">>
order_date_id == <<"o", "r", "d", "e", "r", "_", "d", "a", "t", "e", "_", "i", "d">>
sku == <<"s", "k", "u">>
cost == <<"c", "o", "s", "t">>

CategoryFrame ==
  [names |-> <<Price_ID, inventory_time, order_date_id, sku, notes>>,
   dtypes |-> <<"number", "number", "number", "number", "number">>,
   rows |-> << <<-1016, 2500, 1000, 1000, 0>> >>]

\* Recommendations of the language model for the columns of that frame and for
\* "cost", which the frame lacks, in two orders, with and without duplicate
\* removal.
CategoryResults ==
  LET rec(name) == [column_name |-> name, missing_values |-> "mean",
                    outliers |-> [method |-> "zscore", action |-> "remove"],
                    value_transformations |-> {}]
      list == <<rec(Price_ID), rec(inventory_time), rec(order_date_id), rec(sku),
                rec(notes), rec(cost)>>
  IN { [kind |-> "parsed",
        recommendations |-> [duplicate_removal |-> dup, column_recommendations |-> recs]] :
         dup \in BOOLEAN,
         recs \in { list, [k \in 1..Len(list) |-> list[Len(list) + 1 - k]] } }

\* ai_clean_dataset on that frame.
InitAICleanCategories ==
  \E result \in CategoryResults :
     EnterAIClean(CategoryFrame, result, [kind |-> "raises", columns |-> <<>>])

\* Frames of up to two rows in which the price, the city or both can be
\* missing.
MissingCellFrames ==
  { [names |-> <<price, city>>, dtypes |-> <<"number", "object">>, rows |-> rows] :
      rows \in SeqsUpTo({ <<0, Berlin>>, <<NaN, Berlin>>, <<0, NaN>>, <<NaN, NaN>> }, 2) }

\* The default recommendations for such a frame.
InitDefaultMissingCells == \E frame \in MissingCellFrames : EnterDefault(frame)

\* A frame with prices 10, 12, 11, 1000 and a missing one, and an id column
\* without repeats.
id == <<"i", "d">>

PriceAndIdFrame ==
  [names |-> <<price, id>>, dtypes |-> <<"number", "number">>,
   rows |-> << <<10000, 1000>>, <<12000, 2000>>, <<11000, 3000>>,
               <<1000000, 4000>>, <<NaN, 5000>> >>]

\* Median imputation and IQR capping recommended for "price".
MedianAndIqrCap ==
  [column_name |-> price, missing_values |-> "median",
   outliers |-> [method |-> "iqr", action |-> "cap"],
   value_transformations |-> {}]

\* apply_ai_recommendations on that frame with that recommendation, alone or
\* followed by one for the id column, with and without duplicate removal.
InitPriceAndId ==
  \E duplicate_removal \in BOOLEAN, ans \in Answers,
     others \in { <<>>,
                  << [column_name |-> id, missing_values |-> "none",
                      outliers |-> [method |-> "none", action |-> "none"],
                      value_transformations |-> {}] >> } :
    EnterApply(PriceAndIdFrame,
               [duplicate_removal |-> duplicate_removal,
                column_recommendations |-> <<MedianAndIqrCap>> \o others],
               ans)

\* ------------------------------------------------------- the routes of app.py

\* The name under which the request's file was saved, and the name /clean
\* gives the cleaned file (app.py line 556).
File == <<"20240101_120000", "data.csv">>

cleaned_filename(filename) == <<"cleaned_">> \o filename

NoFrame == [names |-> <<>>, dtypes |-> <<>>, rows |-> <<>>]

NoResponse == [status |-> 0]

\* The text /clean attaches to the report (app.py lines 565-573), line by line:
\* the fixed part of each line and the values printed in it.
human_readable(r) ==
  << [text |-> "AI cleaning completed successfully.", values |-> <<>>],
     [text |-> "Dataset Summary:", values |-> <<>>],
     [text |-> "- Original rows: ", values |-> <<r.original_rows>>],
     [text |-> "- Final rows: ", values |-> <<r.final_rows>>],
     [text |-> "- Duplicates removed: ", values |-> <<r.duplicates_removed>>],
     [text |-> "The AI agent analyzed your data and automatically applied appropriate cleaning methods based on the characteristics of each column.",
      values |-> <<>>] >>

\* /clean, lines 481-498 and 532: the file is looked up and read, and
\* ai_clean_dataset is called on it.
RouteRead ==
  /\ route.name = "/clean" /\ pc = "received"
  /\ IF route.filename \notin DOMAIN folder
     THEN /\ route' = [route EXCEPT !.response = [status |-> 404]]
          /\ pc' = "responded"
          /\ UNCHANGED <<df, cleaned_df, caller_df, report>>
     ELSE LET frame == folder[route.filename]
          IN /\ df' = frame
             /\ cleaned_df' = copy(frame).frame
             /\ caller_df' = [frame |-> frame, same_object |-> copy(frame).same_object]
             /\ report' = InitialReport(frame)
             /\ route' = [route EXCEPT !.attempt = 1]
             /\ pc' = "get_recommendations"
  /\ UNCHANGED <<fn, recommendations, options, answer, chain_result, audit_log, idx,
                 raised, environ, folder>>

\* /clean, lines 536-545: ai_clean_dataset raised or logged no operation, and
\* apply_ai_recommendations is called on the same frame with the
\* recommendations of create_default_recommendations.
RouteFallback ==
  /\ route.name = "/clean" /\ route.attempt = 1
  /\ pc = "raised" \/ (pc = "done" /\ Len(audit_log) = 0)
  /\ route' = [route EXCEPT !.attempt = 2]
  /\ df' = caller_df.frame
  /\ cleaned_df' = copy(caller_df.frame).frame
  /\ caller_df' = [caller_df EXCEPT !.same_object = copy(caller_df.frame).same_object]
  /\ report' = InitialReport(caller_df.frame)
  /\ audit_log' = <<>>
  /\ idx' = 1
  /\ raised' = "none"
  /\ pc' = "create_default"
  /\ UNCHANGED <<fn, recommendations, options, answer, chain_result, environ, folder>>

\* A run that logged no operation answered as a failure.
StatusNeedsOperations == IF pc = "raised" \/ Len(audit_log) = 0 THEN 500 ELSE 200

\* /clean, lines 551-553 and 576-580: status 500 when the second call raised,
\* status 200 otherwise.
Status == IF pc = "raised" THEN 500 ELSE 200

\* /clean, lines 548-580: an exception of the second call is answered with
\* status 500; otherwise the cleaned frame is saved and the report answered
\* with status 200.
RouteRespond ==
  /\ route.name = "/clean" /\ route.attempt \in {1, 2}
  /\ \/ route.attempt = 2 /\ pc \in {"done", "raised"}
     \/ route.attempt = 1 /\ pc = "done" /\ Len(audit_log) > 0
  /\ IF Status = 500
     THEN /\ route' = [route EXCEPT !.response = [status |-> 500]]
          /\ UNCHANGED folder
     ELSE /\ folder' = Put(folder, cleaned_filename(route.filename), cleaned_df)
          /\ route' = [route EXCEPT !.response =
               [status |-> Status,
                report |-> report,
                audit_log |-> audit_log,
                human_readable |-> human_readable(report),
                cleaned_filename |-> cleaned_filename(route.filename)]]
  /\ pc' = "responded"
  /\ UNCHANGED <<inputs, cleaned_df, caller_df, audit_log, report, idx, raised, environ>>

\* The keys another client posts to /set-api-key: none, one of 19 characters,
\* one that lacks the prefix, and one the route accepts.
ApiKeys ==
  { NoKey,
    <<"s", "k", "-">> \o [k \in 1..16 |-> "x"],
    [k \in 1..20 |-> "x"],
    SomeKey }

\* /set-api-key (app.py lines 623-645), served while the /clean request is
\* being served: a key that passes the checks is stored in the environment of
\* the process.
SetApiKey ==
  /\ route.name = "/clean" /\ pc # "responded"
  /\ \E api_key \in ApiKeys :
       IF \/ api_key = NoKey
          \/ Len(api_key) < 3
          \/ SubSeq(api_key, 1, 3) # <<"s", "k", "-">>
          \/ Len(api_key) < 20
       THEN UNCHANGED environ
       ELSE environ' = api_key
  /\ UNCHANGED <<inputs, cleaned_df, audit_log, report, pc, idx, raised, caller_df,
                 folder, route>>

\* The frames another client uploads.
UploadFrames ==
  { [names |-> <<price, city>>, dtypes |-> <<"number", "object">>, rows |-> rows] :
      rows \in { <<>>, << <<NaN, Berlin>> >> } }

\* /upload (app.py lines 400-406), served while the /clean request is being
\* served: the file is saved under the time of the upload, to the second, and
\* its name, over any file of that name.
Upload ==
  /\ route.name = "/clean" /\ pc # "responded"
  /\ \E timestamp \in {"20240101_120000", "20240101_120001"}, frame \in UploadFrames :
       folder' = Put(folder, <<timestamp, "data.csv">>, frame)
  /\ UNCHANGED <<inputs, cleaned_df, audit_log, report, pc, idx, raised, caller_df,
                 environ, route>>

\* A host process serving one /clean request while other clients post to
\* /set-api-key and /upload.
NextHost ==
  \/ RouteRead
  \/ GetRecommendations /\ CallerFrame /\ UNCHANGED host
  \/ CreateDefault /\ CallerFrame /\ UNCHANGED host
  \/ AIDuplicates /\ CallerFrame /\ UNCHANGED host
  \/ AINextColumn /\ CallerFrame /\ UNCHANGED host
  \/ AIMissing /\ CallerFrame /\ UNCHANGED host
  \/ AIOutliers /\ CallerFrame /\ UNCHANGED host
  \/ AIEnsurePricesPositive /\ CallerFrame /\ UNCHANGED host
  \/ AIEnsureValuesPositive /\ CallerFrame /\ UNCHANGED host
  \/ AIRound /\ CallerFrame /\ UNCHANGED host
  \/ AIConvertToInteger /\ CallerFrame /\ UNCHANGED host
  \/ RouteFallback
  \/ RouteRespond
  \/ SetApiKey
  \/ Upload

\* The frames of the request's file: the small family up to HostRows rows and
\* the e-commerce family.
HostRows == 1

HostFrames ==
  { frame \in Frames : NRows(frame) <= HostRows } \cup EcommerceFrames

\* A /clean request arrives for a stored file; the process has a key or none.
RequestArrives(frame, result, ans, key) ==
    /\ fn = "apply_ai_recommendations"
    /\ df = NoFrame
    /\ recommendations = NoRecommendations
    /\ options = NoOptions
    /\ answer = ans
    /\ chain_result = result
    /\ cleaned_df = NoFrame
    /\ caller_df = [frame |-> NoFrame, same_object |-> FALSE]
    /\ audit_log = <<>>
    /\ report = InitialReport(NoFrame)
    /\ pc = "received"
    /\ idx = 1
    /\ raised = "none"
    /\ environ = key
    /\ folder = Put(<<>>, File, frame)
    /\ route = [name |-> "/clean", filename |-> File, attempt |-> 0,
                response |-> NoResponse,
                arrived |-> [environ |-> key, file |-> frame]]

InitHost ==
  \E frame \in HostFrames,
     result \in { r \in ChainResults : r.kind # "no_key" },
     ans \in { [kind |-> "raises", columns |-> <<>>],
               [kind |-> "columns", columns |-> <<city, notes>>] },
     key \in {NoKey, SomeKey} :
    RequestArrives(frame, result, ans, key)

\* The same for the frames of the small family alone and a language model
\* that answers with recommendations.
InitHostSmall ==
  \E frame \in { f \in Frames : NRows(f) <= HostRows },
     result \in { r \in ChainResults : r.kind = "parsed" },
     key \in {NoKey, SomeKey} :
    RequestArrives(frame, result, [kind |-> "raises", columns |-> <<>>], key)

\* The orchestration: lists of recommendations, the default recommendations.
Spec ==
  (InitList \/ InitDefault \/ InitAICleanEcommerce \/ InitCleanDuplicates)
  /\ [][Next]_vars

\* Every single recommendation and every choice of options on small frames.
SpecColumn ==
  (InitColumn \/ InitDefault \/ InitAIClean \/ InitClean \/ InitCleanObject
     \/ InitPriceAndId \/ InitDefaultMissingCells \/ InitAICleanCategories)
  /\ [][Next]_vars

\* Outlier handling on long frames.
SpecLong == InitLong /\ [][Next]_vars

\* Duplicate keys, and columns the frame lacks, on frames of the key family.
SpecKey == (InitKey \/ InitKeyRecs \/ InitKeyOther) /\ [][Next]_vars

\* One /clean request and the requests of other clients served with it.
SpecHost == InitHost /\ [][NextHost]_vars

\* The steps of the /clean request itself.
RouteStep ==
  \/ RouteRead
  \/ RouteFallback
  \/ RouteRespond
  \/ (GetRecommendations \/ CreateDefault \/ AIDuplicates \/ AINextColumn \/ AIMissing
        \/ AIOutliers \/ AIEnsurePricesPositive \/ AIEnsureValuesPositive \/ AIRound
        \/ AIConvertToInteger) /\ CallerFrame /\ UNCHANGED host

\* The same, with the thread serving the /clean request never starved by the
\* threads serving the other clients.
SpecHostFair == InitHostSmall /\ [][NextHost]_vars /\ WF_vars(RouteStep)

\* ------------------------------------------------------------------ claims

IsApply == fn = "apply_ai_recommendations"

IsClean == fn = "clean_dataset"

\* C1: the report of apply_ai_recommendations and of clean_dataset never has
\* more final rows than original rows, and has as many final columns as
\* original columns; the counts are those of the input and of the result.
FinalRowsAtMostOriginal ==
  pc = "done" =>
    /\ report.original_rows = NRows(df)
    /\ report.original_columns = NCols(df)
    /\ report.final_rows = NRows(cleaned_df)
    /\ report.final_rows <= report.original_rows
    /\ report.final_columns = report.original_columns

\* Both functions returned a report of a run that removed rows.
RowsWereRemoved ==
  /\ pc = "done"
  /\ report.final_rows < report.original_rows
  /\ report.final_rows > 0

\* The frame and the log while the operations are applied one after another.
Applied(d, log) == [d |-> d, log |-> log]

ThenDuplicates(st) ==
  IF recommendations.duplicate_removal
  THEN LET after == RemoveDuplicates(st.d, answer)
       IN Applied(after,
                  Append(st.log,
                         AuditEntry("remove_duplicates", NoName,
                                    "ai_powered_duplicate_detection",
                                    NRows(st.d) - NRows(after))))
  ELSE st

ThenMissing(st, rec) ==
  LET c == ColIndex(st.d, rec.column_name)
  IN IF rec.missing_values # "none"
     THEN Applied(AIMissingFrame(st.d, c, rec.missing_values),
                  st.log \o AIMissingAudit(st.d, c, rec.missing_values))
     ELSE st

ThenOutliers(st, rec) ==
  LET c == ColIndex(st.d, rec.column_name)
      o == rec.outliers
  IN IF o.method # "none" /\ IsNumeric(st.d, c)
     THEN Applied(AIOutlierFrame(st.d, c, o.method, o.action),
                  st.log \o AIOutlierAudit(st.d, c, o.method, o.action))
     ELSE st

ThenTransformation(st, rec, transformation) ==
  LET c == ColIndex(st.d, rec.column_name)
      negative_count == TrueCount(Negative(Col(st.d, c)))
      entry(detail, n) == AuditEntry("value_transformation", rec.column_name, detail, n)
  IN IF transformation \notin rec.value_transformations THEN st
     ELSE IF transformation = EnsurePricesPositive
     THEN (IF negative_count > 0
           THEN Applied(PricesPositiveFrame(st.d, c),
                        Append(st.log, entry("ensure_positive_values", negative_count)))
           ELSE st)
     ELSE IF transformation = EnsureValuesPositive
     THEN (IF negative_count > 0
           THEN Applied(ValuesPositiveFrame(st.d, c),
                        Append(st.log, entry("convert_negative_to_positive", negative_count)))
           ELSE st)
     ELSE IF transformation = RoundCurrency
     THEN Applied(RoundFrame(st.d, c),
                  Append(st.log, entry("round_to_currency_precision", NRows(st.d))))
     ELSE Applied(IntegerFrame(st.d, c),
                  Append(st.log, entry("convert_to_integer", IntegerRowsAffected(st.d, c))))

ThenColumn(st, rec) ==
  IF ~HasColumn(st.d, rec.column_name) THEN st
  ELSE ThenTransformation(
         ThenTransformation(
           ThenTransformation(
             ThenTransformation(ThenOutliers(ThenMissing(st, rec), rec),
                                rec, EnsurePricesPositive),
             rec, EnsureValuesPositive),
           rec, RoundCurrency),
         rec, ConvertToInteger)

RECURSIVE ThenColumns(_, _)
ThenColumns(st, recs) ==
  IF recs = <<>> THEN st
  ELSE ThenColumns(ThenColumn(st, Head(recs)), Tail(recs))

\* C2: apply_ai_recommendations removes duplicates first, from the untouched
\* copy of the input, then takes the column recommendations in list order and
\* for each handles missing values, then outliers, then the value
\* transformations, each on the result of the step before; the audit log holds
\* the entries in that order.
OperationsInFixedOrder ==
  /\ IsApply /\ pc = "duplicates" => cleaned_df = df /\ audit_log = <<>>
  /\ IsApply /\ pc = "done" =>
       LET result == ThenColumns(ThenDuplicates(Applied(df, <<>>)),
                                 recommendations.column_recommendations)
       IN /\ cleaned_df = result.d
          /\ audit_log = result.log

\* A run that logged duplicate removal, then for the first recommendation a
\* fill and two transformations, then the second recommendation's drop.
FiveOperationsLogged ==
  /\ IsApply /\ pc = "done"
  /\ Len(audit_log) = 5
  /\ [k \in 1..5 |-> audit_log[k].operation] =
       <<"remove_duplicates", "fill_missing_values", "value_transformation",
         "value_transformation", "drop_missing_values">>
  /\ audit_log[2].rows_affected > 0

\* C3: in clean_dataset duplicate removal works on the full, untouched
\* dataset, before missing values are handled, and duplicates_removed is the
\* number of rows of the input that repeat an earlier row exactly.
DuplicatesRemovedFromInput ==
  /\ (IsClean /\ pc = "missing" /\ idx > NCols(cleaned_df) /\ options.remove_duplicates)
       => cleaned_df = df
  /\ (IsClean /\ pc = "done" /\ options.remove_duplicates)
       => report.duplicates_removed =
            NRows(df) - NRows(DropDuplicates(df, AllColumns(df)))

\* The cells of a frame that differ from the frame of as many rows before it.
CellsChanged(before, after) ==
  Cardinality({ <<r, c>> \in (1..NRows(before)) \X (1..NCols(before)) :
                  before.rows[r][c] # after.rows[r][c] })

RowsOrCellsChanged(before, after) ==
  IF NRows(after) # NRows(before) THEN NRows(before) - NRows(after)
  ELSE CellsChanged(before, after)

\* C4: every operation of apply_ai_recommendations that changes the row count
\* or the values of a column appends exactly one audit entry, whose
\* rows_affected is the number of rows removed or of cells changed.
ChangeLoggedWithItsCount ==
  [][ (IsApply /\ cleaned_df'.rows # cleaned_df.rows) =>
        /\ Len(audit_log') = Len(audit_log) + 1
        /\ audit_log'[Len(audit_log')].rows_affected =
             RowsOrCellsChanged(cleaned_df, cleaned_df') ]_vars

\* A sub-step of apply_ai_recommendations that the recommendation asks for.
SubStepRequested ==
  /\ IsApply
  /\ \/ pc = "missing" /\ Rec.missing_values # "none"
     \/ pc = "outliers" /\ Rec.outliers.method # "none"
                        /\ Rec.outliers.action \in {"remove", "cap"}
     \/ pc = "ensure_prices_positive" /\ Requested(EnsurePricesPositive)
     \/ pc = "ensure_values_positive" /\ Requested(EnsureValuesPositive)
     \/ pc = "round" /\ Requested(RoundCurrency)
     \/ pc = "convert_to_integer" /\ Requested(ConvertToInteger)

\* C5: every sub-step requested for a column the frame has (a missing-value
\* method other than none, outlier removal or capping, each named
\* transformation) appends one audit entry, also when it affects no row.
RequestedStepLogged ==
  [][ (SubStepRequested /\ pc' # "raised") =>
        Len(audit_log') = Len(audit_log) + 1 ]_vars

\* The outlier step about to run caps a numeric column.
AICapStep ==
  /\ IsApply /\ pc = "outliers"
  /\ Rec.outliers.method # "none" /\ Rec.outliers.action = "cap"
  /\ IsNumeric(cleaned_df, RecCol)

CleanOutlierStep ==
  /\ IsClean /\ pc = "outliers" /\ idx <= NCols(cleaned_df)
  /\ IsNumeric(cleaned_df, idx)
  /\ cleaned_df.names[idx] \in DOMAIN options.outliers
  /\ options.outliers[cleaned_df.names[idx]].enabled

CleanCapStep ==
  CleanOutlierStep /\ options.outliers[cleaned_df.names[idx]].action = "cap"

CapStep == AICapStep \/ CleanCapStep

\* The column the step works on, its method and its threshold in halves.
StepColumn == IF IsApply THEN RecCol ELSE idx

StepMethod ==
  IF IsApply THEN (IF Rec.outliers.method = "zscore" THEN "zscore" ELSE "iqr")
  ELSE (IF options.outliers[cleaned_df.names[idx]].method = "zscore" THEN "zscore"
        ELSE "iqr")

StepThreshold ==
  IF IsApply THEN (IF StepMethod = "zscore" THEN ZScoreThreshold ELSE IqrThreshold)
  ELSE options.outliers[cleaned_df.names[idx]].threshold

\* The column before the step, and the flags and bounds computed from it.
Before == Col(cleaned_df, StepColumn)

After == Col(cleaned_df', StepColumn)

FlagsBefore == detect_outliers(Before, StepMethod, StepThreshold)

LowerBefore ==
  IF StepMethod = "zscore" THEN Mean(Before) - TimesStd(Before, StepThreshold)
  ELSE IqrLower(Before, StepThreshold)

UpperBefore ==
  IF StepMethod = "zscore" THEN Mean(Before) + TimesStd(Before, StepThreshold)
  ELSE IqrUpper(Before, StepThreshold)

\* The capped frame capped once more by the same function with the same
\* method and threshold.
CappedAgain ==
  IF IsApply
  THEN AIOutlierFrame(cleaned_df', StepColumn, Rec.outliers.method, "cap")
  ELSE CleanOutlierFrame(cleaned_df', StepColumn,
                         options.outliers[cleaned_df.names[idx]])

\* C6 as stated: capping twice in succession with the same method and
\* threshold gives the result of capping once; the second pass flags no
\* outlier in the capped values and changes nothing.
CappingTwiceIsCappingOnce ==
  [][ CapStep =>
        /\ TrueCount(detect_outliers(After, StepMethod, StepThreshold)) = 0
        /\ CappedAgain = cleaned_df' ]_vars

\* C6, amended: capping sets every flagged value to one of the two bounds
\* computed from the column before capping, so that no capped value lies
\* outside those original bounds, and leaves every other value as it is.
CappedToOriginalBounds ==
  [][ CapStep =>
        /\ Len(After) = Len(Before)
        /\ \A r \in 1..Len(Before) :
             IF FlagsBefore[r]
             THEN /\ After[r] \in {LowerBefore, UpperBefore}
                  /\ LowerBefore <= After[r] /\ After[r] <= UpperBefore
             ELSE After[r] = Before[r] ]_vars

\* A capping step of apply_ai_recommendations has changed a flagged value.
ValuesWereCapped ==
  /\ IsApply /\ pc = "ensure_prices_positive"
  /\ Rec.outliers.action = "cap" /\ Rec.outliers.method = "zscore"
  /\ Rec.missing_values = "none"
  /\ price \in DOMAIN report.outliers_handled
  /\ report.outliers_handled[price].count > 0
  /\ cleaned_df # df

\* C7: z-score capping, in both functions, replaces a flagged value by
\* mean + t*std when it lies above the mean and by mean - t*std when it lies
\* below, mean and std being those of the column before capping.
ZScoreCapOnTheValuesSide ==
  [][ (CapStep /\ StepMethod = "zscore") =>
        \A r \in 1..Len(Before) :
           FlagsBefore[r] =>
             After[r] = IF Before[r] > Mean(Before) THEN UpperBefore ELSE LowerBefore ]_vars

\* C8: IQR capping computes Q1, Q3 and the fences once, before any value is
\* changed; afterwards every non-missing value lies within
\* [Q1 - t*IQR, Q3 + t*IQR] of the column before capping, a flagged value
\* equals the fence on its side and an unflagged value is unchanged.
IqrCapToNearerFence ==
  [][ (CapStep /\ StepMethod = "iqr") =>
        /\ Len(After) = Len(Before)
        /\ \A r \in 1..Len(Before) :
             IF IsNull(Before[r]) THEN IsNull(After[r])
             ELSE /\ IqrLower(Before, StepThreshold) <= After[r]
                  /\ After[r] <= IqrUpper(Before, StepThreshold)
                  /\ Before[r] < IqrLower(Before, StepThreshold)
                       => After[r] = IqrLower(Before, StepThreshold)
                  /\ Before[r] > IqrUpper(Before, StepThreshold)
                       => After[r] = IqrUpper(Before, StepThreshold)
                  /\ ~FlagsBefore[r] => After[r] = Before[r] ]_vars

\* clean_dataset has capped a value of a column with a positive IQR to a fence.
CappedToFence ==
  /\ IsClean /\ pc = "done"
  /\ price \in DOMAIN options.outliers
  /\ options.outliers[price].method = "iqr" /\ options.outliers[price].action = "cap"
  /\ report.outliers_handled[price].count > 0
  /\ Quantile(Col(df, 1), 3) > Quantile(Col(df, 1), 1)
  /\ cleaned_df # df

\* At least two non-missing values, all of them equal: the standard deviation is 0.
ZeroDeviation(s) ==
  /\ Len(DropNaSeries(s)) >= 2
  /\ Cardinality(Range(DropNaSeries(s))) = 1

\* The outlier step about to run uses the z-score on a numeric column.
ZScoreStep ==
  \/ /\ IsApply /\ pc = "outliers" /\ Rec.outliers.method = "zscore"
     /\ IsNumeric(cleaned_df, RecCol)
  \/ /\ CleanOutlierStep
     /\ options.outliers[cleaned_df.names[idx]].method = "zscore"

\* C9: on a numeric column of zero standard deviation the z-score flags no
\* row and raises nothing, in detect_outliers, clean_dataset,
\* create_default_recommendations and apply_ai_recommendations, and the
\* column's values are left as they are.
ZeroDeviationFlagsNothing ==
  /\ [](\A c \in 1..NCols(cleaned_df) :
          (IsNumeric(cleaned_df, c) /\ ZeroDeviation(Col(cleaned_df, c))) =>
            /\ \A t2 \in {2, ZScoreThreshold} :
                 TrueCount(detect_outliers(Col(cleaned_df, c), "zscore", t2)) = 0
            /\ create_default_recommendations(cleaned_df)
                 .column_recommendations[c].outliers.method = "none")
  /\ [][ (ZScoreStep /\ ZeroDeviation(Before)) =>
           /\ pc' # "raised"
           /\ cleaned_df' = cleaned_df
           /\ report'.outliers_handled[cleaned_df.names[StepColumn]].count = 0 ]_vars

\* clean_dataset ran the z-score over six or more equal values.
ZeroDeviationColumnCleaned ==
  /\ IsClean /\ pc = "done"
  /\ NRows(df) >= 6 /\ NullCount(Col(df, 1)) > 0
  /\ ZeroDeviation(Col(df, 1))
  /\ price \in DOMAIN options.outliers
  /\ options.outliers[price].method = "zscore"
  /\ price \in DOMAIN report.outliers_handled

\* The missing-value step about to run imputes a statistic.
ImputeStep ==
  \/ /\ IsApply /\ pc = "missing"
     /\ Rec.missing_values \in {"mean", "median", "mode"}
  \/ /\ IsClean /\ pc = "missing" /\ idx <= NCols(cleaned_df)
     /\ cleaned_df.names[idx] \in DOMAIN options.missing_values
     /\ options.missing_values[cleaned_df.names[idx]] \in {"mean", "median", "mode"}

ImputeMethod ==
  IF IsApply THEN Rec.missing_values ELSE options.missing_values[cleaned_df.names[idx]]

\* The statistic over the non-missing values; for mode the least of the most
\* frequent values.
Statistic(s, method) ==
  IF method = "mean" THEN Mean(s)
  ELSE IF method = "median" THEN Median(s)
  ELSE Mode(s)[1]

\* No missing value is left, the formerly missing cells hold the statistic and
\* the other cells are unchanged.
Imputed ==
  /\ pc' # "raised"
  /\ Len(After) = Len(Before)
  /\ NullCount(After) = 0
  /\ \A r \in 1..Len(Before) :
       After[r] = IF IsNull(Before[r]) THEN Statistic(Before, ImputeMethod)
                  ELSE Before[r]

\* C10 as stated: for any column with k missing values, mean, median or mode
\* imputation leaves 0 missing values, the k formerly missing entries equal to
\* the statistic over the non-missing values, and the present values unchanged.
ImputationFillsAnyColumn == [][ ImputeStep => Imputed ]_vars

\* C10, amended: the same for a column that has a non-missing value and, for
\* mean and median, is numeric.
ImputationFillsColumnWithValues ==
  [][ ( /\ ImputeStep
        /\ DropNaSeries(Before) # <<>>
        /\ ImputeMethod \in {"mean", "median"} => IsNumeric(cleaned_df, StepColumn) )
      => Imputed ]_vars

\* apply_ai_recommendations has filled two or more missing prices with the median.
TwoMissingFilled ==
  /\ IsApply /\ pc = "outliers"
  /\ Rec.missing_values = "median"
  /\ NullCount(Col(df, 1)) >= 2
  /\ DropNaSeries(Col(df, 1)) # <<>>
  /\ NullCount(Col(cleaned_df, 1)) = 0
  /\ NRows(cleaned_df) = NRows(df)

\* The missing-value step about to run imputes the mode of a column that has no
\* non-missing value.
ModeOfNothingStep ==
  ImputeStep /\ ImputeMethod = "mode" /\ DropNaSeries(Before) = <<>>

\* C11: mode imputation on a column that has no non-missing value does not fail
\* and leaves the frame as it was, in apply_ai_recommendations and in
\* clean_dataset.
ModeOfNothingIsNoOp ==
  [][ ModeOfNothingStep => (pc' # "raised" /\ cleaned_df' = cleaned_df) ]_vars

\* The same for apply_ai_recommendations alone, whose line 692 tests for the
\* empty mode.
AIModeOfNothingIsNoOp ==
  [][ (IsApply /\ ModeOfNothingStep) =>
        (pc' # "raised" /\ cleaned_df' = cleaned_df) ]_vars

\* The step about to run is a numeric-only operation asked for a column that
\* is not numeric: mean or median imputation, or outlier handling.
NumericOnlyStepOnObject ==
  \/ /\ IsApply /\ pc = "missing"
     /\ Rec.missing_values \in {"mean", "median"}
     /\ ~IsNumeric(cleaned_df, RecCol)
  \/ /\ IsApply /\ pc = "outliers"
     /\ Rec.outliers.method \in {"zscore", "iqr"}
     /\ ~IsNumeric(cleaned_df, RecCol)
  \/ /\ IsClean /\ pc = "missing" /\ idx <= NCols(cleaned_df)
     /\ cleaned_df.names[idx] \in DOMAIN options.missing_values
     /\ options.missing_values[cleaned_df.names[idx]] \in {"mean", "median"}
     /\ ~IsNumeric(cleaned_df, idx)
  \/ /\ IsClean /\ pc = "outliers" /\ idx <= NCols(cleaned_df)
     /\ cleaned_df.names[idx] \in DOMAIN options.outliers
     /\ ~IsNumeric(cleaned_df, idx)

\* C12: a numeric-only operation asked for a non-numeric column does not fail
\* and changes neither the column's values nor the number of rows, in
\* apply_ai_recommendations and in clean_dataset.
NumericOnlyOnObjectIsNoOp ==
  [][ NumericOnlyStepOnObject =>
        /\ pc' # "raised"
        /\ NRows(cleaned_df') = NRows(cleaned_df)
        /\ Col(cleaned_df', StepColumn) = Col(cleaned_df, StepColumn) ]_vars

\* The same for apply_ai_recommendations alone, which tests the dtype first
\* (lines 653, 672, 720).
AINumericOnlyOnObjectIsNoOp ==
  [][ (IsApply /\ NumericOnlyStepOnObject) =>
        /\ pc' # "raised"
        /\ NRows(cleaned_df') = NRows(cleaned_df)
        /\ Col(cleaned_df', StepColumn) = Col(cleaned_df, StepColumn) ]_vars

\* The transformation about to run cannot be evaluated on the column's values:
\* a comparison with 0 or float(x) on strings.
FailingColumnStep ==
  /\ IsApply /\ pc \in {"ensure_prices_positive", "ensure_values_positive",
                        "convert_to_integer"}
  /\ HoldsStrings(cleaned_df, RecCol)
  /\ \/ pc = "ensure_prices_positive" /\ Requested(EnsurePricesPositive)
     \/ pc = "ensure_values_positive" /\ Requested(EnsureValuesPositive)
     \/ pc = "convert_to_integer" /\ Requested(ConvertToInteger)

\* C14: a failure while processing one column does not abort
\* apply_ai_recommendations: no exception leaves the function, and the failing
\* step leaves the frame alone and appends an audit entry for the column with
\* rows_affected 0, after which the run goes on.
ColumnFailureIsLoggedNotRaised ==
  /\ [](IsApply => pc # "raised")
  /\ [][ FailingColumnStep =>
           /\ pc' # "raised"
           /\ cleaned_df' = cleaned_df
           /\ Len(audit_log') = Len(audit_log) + 1
           /\ audit_log'[Len(audit_log')].column = Rec.column_name
           /\ audit_log'[Len(audit_log')].rows_affected = 0 ]_vars

\* A failure inside the try block of lines 871-886 is caught.
CaughtFailureDoesNotAbort ==
  [][ (FailingColumnStep /\ pc = "convert_to_integer") =>
        (pc' # "raised" /\ cleaned_df' = cleaned_df) ]_vars

\* The number of rows equal to a given row.
Occurrences(rows, row) == Cardinality({ r \in 1..Len(rows) : rows[r] = row })

\* One row occurs three times and all other rows are pairwise distinct.
IsTripleFrame(d) ==
  \E row \in Range(d.rows) :
     /\ Occurrences(d.rows, row) = 3
     /\ \A other \in Range(d.rows) \ {row} : Occurrences(d.rows, other) = 1

TripleRow(d) == CHOOSE row \in Range(d.rows) : Occurrences(d.rows, row) = 3

\* The language model supplied a key: a list naming a column of the frame.
KeySupplied(d) ==
  /\ answer.kind = "columns"
  /\ \E k \in 1..Len(answer.columns) : HasColumn(d, answer.columns[k])

\* The duplicate step about to run takes the heuristic scorer's path.
ScorerStep ==
  /\ IsApply /\ pc = "duplicates"
  /\ recommendations.duplicate_removal
  /\ ~KeySupplied(cleaned_df)

\* The columns the scorer's path deduplicates on.
ScorerKey(d) == IF ScorerSubset(d) # <<>> THEN ScorerSubset(d) ELSE AllColumns(d)

\* No two different rows agree on the scorer's key.
KeySeparates(d) ==
  LET key == ScorerKey(d)
  IN \A q, r \in 1..NRows(d) :
        d.rows[q] # d.rows[r] => RowKey(d.rows[q], key) # RowKey(d.rows[r], key)

\* The rows without those equal to an earlier row, in order.
WithoutLaterCopies(rows) ==
  KeepUnflagged(rows, [r \in 1..Len(rows) |-> \E q \in 1..(r - 1) : rows[q] = rows[r]])

\* Exactly the second and third copy are gone: the result is the input without
\* the rows that repeat an earlier row.
OnlyLaterCopiesRemoved ==
  /\ NRows(cleaned_df') = NRows(cleaned_df) - 2
  /\ report'.duplicates_removed = 2
  /\ cleaned_df'.rows = WithoutLaterCopies(cleaned_df.rows)

\* C15 as stated: on any dataset in which one row occurs three times and all
\* other rows are pairwise distinct, duplicate resolution on the scorer's path
\* removes exactly 2 rows and keeps the first occurrence of the repeated row in
\* its original position.
TripleRowLosesTwoCopies ==
  [][ (ScorerStep /\ IsTripleFrame(cleaned_df)) => OnlyLaterCopiesRemoved ]_vars

\* C15, amended: on such a dataset the scorer's path removes at least 2 rows
\* and leaves at most one copy of the repeated row; it removes exactly the two
\* later copies when no two different rows agree on the key the scorer selects.
TripleRowLosesLaterCopies ==
  [][ (ScorerStep /\ IsTripleFrame(cleaned_df)) =>
        /\ NRows(cleaned_df') <= NRows(cleaned_df) - 2
        /\ report'.duplicates_removed = NRows(cleaned_df) - NRows(cleaned_df')
        /\ Occurrences(cleaned_df'.rows, TripleRow(cleaned_df)) <= 1
        /\ KeySeparates(cleaned_df) => OnlyLaterCopiesRemoved ]_vars

\* The scorer's path ran on five or more rows of which one occurs three times,
\* selected a key of fewer columns than the frame has, and removed the two
\* later copies alone.
TwoCopiesRemovedOnScorerKey ==
  /\ IsApply /\ pc = "column" /\ idx = 1
  /\ recommendations.duplicate_removal /\ ~KeySupplied(df)
  /\ IsTripleFrame(df) /\ NRows(df) >= 5
  /\ ScorerSubset(df) # <<>> /\ Len(ScorerSubset(df)) < NCols(df)
  /\ KeySeparates(df)
  /\ cleaned_df.rows = WithoutLaterCopies(df.rows)
  /\ NRows(cleaned_df) = NRows(df) - 2

\* The name contributions as stated: +5 for an identifier token, +3 for a name
\* token and +4 for a contact token, added up.
StatedNamePoints(name) ==
  (IF AnyPattern(name, common_id_patterns) THEN 5 ELSE 0)
  + (IF AnyPattern(name, name_patterns) THEN 3 ELSE 0)
  + (IF AnyPattern(name, contact_patterns) THEN 4 ELSE 0)

\* The uniqueness contribution as stated, for nu distinct values in n rows: +6
\* at a ratio of exactly 1.0, +4 at a ratio above 0.8, +3 at any other ratio
\* strictly between 0.5 and 1.0.
StatedUniquenessPoints(nu, n) ==
  IF n = 0 THEN 0
  ELSE IF nu = n THEN 6
  ELSE IF 5 * nu > 4 * n THEN 4
  ELSE IF 2 * nu > n THEN 3
  ELSE 0

\* C16: the scorer's score of a column is the stated name contributions plus
\* the stated uniqueness contribution: +6 at ratio 1.0, +4 above 0.8, +3
\* strictly between 0.5 and 1.0.
ScoreIsStatedPoints ==
  (IsApply /\ pc = "duplicates") =>
    \A c \in 1..NCols(cleaned_df) :
       ColumnScore(cleaned_df, c) =
         StatedNamePoints(cleaned_df.names[c])
         + StatedUniquenessPoints(NUnique(Col(cleaned_df, c)), NRows(cleaned_df))

\* The same away from the ratios above 0.8 and below 1.0, where the code's
\* first branch (line 569) takes the column before the third (line 573) can.
ScoreIsStatedPointsOutsideTopBand ==
  (IsApply /\ pc = "duplicates") =>
    \A c \in 1..NCols(cleaned_df) :
       LET nu == NUnique(Col(cleaned_df, c))
           n == NRows(cleaned_df)
       IN ~(5 * nu > 4 * n /\ nu < n) =>
            ColumnScore(cleaned_df, c) =
              StatedNamePoints(cleaned_df.names[c]) + StatedUniquenessPoints(nu, n)

\* The rows without those that agree with an earlier row on a set of columns.
WithoutLaterKeys(rows, key) ==
  KeepUnflagged(rows, [r \in 1..Len(rows) |->
      \E q \in 1..(r - 1) : \A c \in key : rows[q][c] = rows[r][c]])

\* The identity key as stated, for the columns' scores: the columns scoring 5 or
\* more when there is one; otherwise up to three columns scoring above zero,
\* none of which scores less than a scoring column left out; all columns when
\* no column scores above zero.
IsStatedKey(columns, score, key) ==
  LET high == { c \in columns : score[c] >= 5 }
      positive == { c \in columns : score[c] > 0 }
  IN IF high # {} THEN key = high
     ELSE IF positive # {}
     THEN /\ key \subseteq positive
          /\ Cardinality(key) = (IF Cardinality(positive) < 3 THEN Cardinality(positive)
                                 ELSE 3)
          /\ \A c \in key, other \in positive \ key : score[c] >= score[other]
     ELSE key = columns

\* C17: on the scorer's path the rows are deduplicated on the identity key:
\* the columns scoring >= 5 when there is one, otherwise the up-to-three
\* highest-scoring columns with score > 0, and all columns when none scores.
ScorerKeyIsStatedKey ==
  [][ ScorerStep =>
        \E score \in { [c \in 1..NCols(cleaned_df) |-> ColumnScore(cleaned_df, c)] } :
           \E key \in SUBSET (1..NCols(cleaned_df)) :
              /\ IsStatedKey(1..NCols(cleaned_df), score, key)
              /\ cleaned_df'.rows = WithoutLaterKeys(cleaned_df.rows, key) ]_vars

\* The scorer's path ran on four columns scoring between 1 and 4, so that the
\* key is three of them, and removed a row that differs from every earlier row
\* in the column left out.
ThreeOfFourColumnsWereKey ==
  /\ IsApply /\ pc = "column" /\ idx = 1
  /\ recommendations.duplicate_removal /\ ~KeySupplied(df)
  /\ NCols(df) = 4
  /\ \A c \in 1..4 : ColumnScore(df, c) \in 1..4
  /\ NRows(cleaned_df) < Len(WithoutLaterCopies(df.rows))

\* The duplicate step about to run, on either path.
DuplicateStep == IsApply /\ pc = "duplicates" /\ recommendations.duplicate_removal

\* The columns of the frame among those the language model named.
SuppliedKey(d) ==
  { c \in 1..NCols(d) : \E k \in 1..Len(answer.columns) : answer.columns[k] = d.names[c] }

\* C19: when the language model supplies a key, the rows are deduplicated on
\* the supplied columns that exist in the dataset, whatever the scorer would
\* select; the scorer's key is used only when there is no API key, the call
\* fails or the answer names no column of the dataset.
SuppliedKeyComesFirst ==
  [][ DuplicateStep =>
        cleaned_df'.rows =
          WithoutLaterKeys(cleaned_df.rows,
                           IF KeySupplied(cleaned_df) THEN SuppliedKey(cleaned_df)
                           ELSE Range(ScorerKey(cleaned_df))) ]_vars

\* The rows were deduplicated on the one existing column of the two the
\* language model named, where the scorer's key would have kept other rows.
SuppliedKeyWasUsed ==
  /\ IsApply /\ pc = "column" /\ idx = 1
  /\ recommendations.duplicate_removal /\ KeySupplied(df)
  /\ Len(answer.columns) > Cardinality(SuppliedKey(df))
  /\ cleaned_df.rows = WithoutLaterKeys(df.rows, SuppliedKey(df))
  /\ cleaned_df.rows # WithoutLaterKeys(df.rows, Range(ScorerKey(df)))
  /\ NRows(cleaned_df) < NRows(df)

\* The outcomes of asking the language model that lead a run on frame d to the
\* scorer: all but a list naming a column of d.
ScorerAnswers(d) ==
  { other \in KeyAnswers :
      ~(other.kind = "columns"
        /\ \E k \in 1..Len(other.columns) : HasColumn(d, other.columns[k])) }

PresentRecs(d, recs) == SelectSeq(recs, LAMBDA rec : HasColumn(d, rec.column_name))

\* The names that recommendations or options give but the frame lacks.
AbsentNames ==
  { name \in { recommendations.column_recommendations[k].column_name :
                 k \in 1..Len(recommendations.column_recommendations) }
             \cup DOMAIN options.missing_values \cup DOMAIN options.outliers :
      ~HasColumn(df, name) }

\* The names options give and the frame has.
PresentOptionNames(dict) == { name \in DOMAIN dict : HasColumn(df, name) }

\* C13: a recommendation or option naming a column the dataset lacks is
\* skipped without error: it leaves no audit entry and no report entry, and
\* the others are applied as if it had not been given.
AbsentColumnIsSkipped ==
  /\ AbsentNames # {} => pc # "raised"
  /\ \A name \in AbsentNames :
       /\ \A k \in 1..Len(audit_log) : audit_log[k].column # name
       /\ name \notin DOMAIN report.missing_values_handled
       /\ name \notin DOMAIN report.outliers_handled
  /\ (IsApply /\ pc = "done") =>
       LET applied == ThenColumns(ThenDuplicates(Applied(df, <<>>)),
                                  PresentRecs(df, recommendations.column_recommendations))
       IN /\ cleaned_df = applied.d
          /\ audit_log = applied.log
          /\ DOMAIN report.missing_values_handled =
               { rec.column_name :
                   rec \in { r \in Range(PresentRecs(df, recommendations.column_recommendations)) :
                               r.missing_values # "none" } }
  /\ (IsClean /\ pc = "done") =>
       /\ DOMAIN report.missing_values_handled = PresentOptionNames(options.missing_values)
       /\ DOMAIN report.outliers_handled = PresentOptionNames(options.outliers)

\* apply_ai_recommendations returned after a recommendation for a column the
\* frame lacks and, after it, one that removed rows.
RecommendationAfterAbsentColumnApplied ==
  /\ IsApply /\ pc = "done"
  /\ Len(recommendations.column_recommendations) = 2
  /\ ~HasColumn(df, recommendations.column_recommendations[1].column_name)
  /\ HasColumn(df, recommendations.column_recommendations[2].column_name)
  /\ NRows(cleaned_df) < NRows(df)
  /\ Len(audit_log) = 1

\* The language model gave no recommendations: no API key, a failing call or
\* output the parser rejects.
RecommenderFailed == chain_result.kind \in {"no_key", "raises", "unparsable"}

\* C20: whenever the language model gives no recommendations,
\* get_ai_cleaning_recommendations returns the default recommendations for the
\* dataset, and ai_clean_dataset goes on to the end without an exception and
\* returns the cleaned frame with a report of its final counts.
FallsBackToDefaultRecommendations ==
  RecommenderFailed =>
    /\ pc # "raised"
    /\ pc # "get_recommendations" => recommendations = create_default_recommendations(df)
    /\ pc = "done" =>
         /\ report.final_rows = NRows(cleaned_df)
         /\ report.missing_values_after = MissingCounts(cleaned_df)

\* ai_clean_dataset returned after the parser rejected the language model's
\* output, having filled missing values that the default recommendations name.
CleanedOnDefaultAfterFailure ==
  /\ pc = "done"
  /\ chain_result.kind = "unparsable"
  /\ \E c \in 1..NCols(df) :
        /\ NullCount(Col(df, c)) > 0
        /\ NullCount(Col(cleaned_df, c)) = 0
        /\ recommendations.column_recommendations[c].missing_values # "none"
  /\ audit_log # <<>>

\* ------------------------------------------------------------------- C21
\* C21: the dataset passed to apply_ai_recommendations or clean_dataset is left
\* unmodified by the call. At every point of the call the caller's frame has
\* the names, the rows and the values it was passed with, and the working
\* frame is never the caller's object.
CallerFrameIsUnmodified ==
  /\ caller_df.frame = df
  /\ ~caller_df.same_object

\* A finished call that assigned into its working frame: the row count is the
\* one passed, the values are not, and the caller's frame is as passed.
CleanedInPlaceOnCopy ==
  /\ pc = "done"
  /\ NRows(cleaned_df) = NRows(df)
  /\ cleaned_df # df
  /\ caller_df.frame = df

\* ------------------------------------------------------------------- C22
\* C22: a /clean request is not affected by the requests served with it. The
\* frame it cleans is the file as stored when it arrived, and the
\* recommendations its first cleaning run applies are the ones the key
\* configured when it arrived leads to, whatever /set-api-key and /upload
\* requests of other clients were served in between.
RequestIsIsolated ==
  (route.name = "/clean" /\ route.attempt = 1
     /\ pc \notin {"received", "get_recommendations"})
  => /\ df = route.arrived.file
     /\ recommendations =
          get_ai_cleaning_recommendations(df, Asked(route.arrived.environ))

\* ------------------------------------------------------------------- C23
\* C23: on the frame with prices 10, 12, 11, 1000 and a missing one and an id
\* column without repeats, median imputation and IQR capping of "price" fill
\* the missing cell with 11.5 and flag the 1000 and nothing else: of the prices
\* given only the 1000 is changed, and the finished report has
\* missing_values_handled["price"] = "median" and outliers_handled["price"] =
\* {method: "iqr", action: "cap", count: 1}.
IsPriceAndIdRun ==
  /\ fn = "apply_ai_recommendations"
  /\ df = PriceAndIdFrame
  /\ recommendations.column_recommendations[1] = MedianAndIqrCap

PriceExampleAsStated ==
  (IsPriceAndIdRun /\ pc = "done")
  => /\ NRows(cleaned_df) = 5
     /\ Col(cleaned_df, 1)[5] = 11500
     /\ \A r \in 1..3 : Col(cleaned_df, 1)[r] = Col(df, 1)[r]
     /\ Col(cleaned_df, 1)[4] # Col(df, 1)[4]
     /\ Col(cleaned_df, 2) = Col(df, 2)
     /\ report.missing_values_handled[price] = "median"
     /\ report.outliers_handled[price] = [method |-> "iqr", action |-> "cap", count |-> 1]

\* The run on that frame has finished, with the 1000 capped.
PriceExampleFinished ==
  /\ IsPriceAndIdRun
  /\ pc = "done"
  /\ Col(cleaned_df, 1)[4] < 1000000

\* ------------------------------------------------------------------- C24
HasLine(lines, texts) == \E k \in 1..Len(lines) : lines[k].text \in texts

\* C24: the text rendered for a report with zero duplicates removed has no
\* line about duplicates, neither the summary of generate_cleaning_report nor
\* the human_readable text /clean attaches to the report it answers with.
NoDuplicateLineForZeroDuplicates ==
  /\ (pc = "done" /\ report.duplicates_removed = 0)
     => ~HasLine(generate_cleaning_report(report),
                 {"* Removed {} duplicate rows to improve data quality"})
  /\ (route.name = "/clean" /\ route.response.status = 200
        /\ route.response.report.duplicates_removed = 0)
     => ~HasLine(route.response.human_readable, {"- Duplicates removed: "})

\* ------------------------------------------------------------------- C25
\* C25: generate_cleaning_report leaves out the section of a category that had
\* no effect, placeholder included: no line about missing values when none was
\* resolved, no line about outliers when none was flagged, no line about
\* removed rows when no row was removed.
SectionsWithoutEffectAreOmitted ==
  (IsClean /\ pc = "done")
  => LET summary == generate_cleaning_report(report)
         resolved == SumSeq(report.missing_values_before)
                       - SumSeq(report.missing_values_after)
         flagged == SumCounts(report.outliers_handled, DOMAIN report.outliers_handled)
     IN /\ resolved <= 0
           => ~HasLine(summary,
                       {"* Successfully handled {} out of {} missing values",
                        "* Your dataset had {} missing values",
                        "  * {description}: {columns}",
                        "  * {description}: {n} columns"})
        /\ flagged = 0
           => ~HasLine(summary,
                       {"* Detected and handled {} outliers across {} columns",
                        "  * Using {method} method: {action}: {columns}"})
        /\ report.original_rows = report.final_rows
           => ~HasLine(summary,
                       {"* {} rows were removed during the cleaning process",
                        "* No rows were removed during cleaning"})

\* ------------------------------------------------------------------- C26
\* The /clean request was answered after a run that logged no operation.
AnsweredWithEmptyLog ==
  /\ route.name = "/clean"
  /\ pc = "responded"
  /\ Len(audit_log) = 0

\* An answer after an empty audit log is a success that reports the dataset
\* unchanged: status 200, the cleaned file equal to the frame read, as many
\* final rows as original rows, and the default recommendations run once.
EmptyLogIsAnsweredAsSuccess ==
  AnsweredWithEmptyLog
  => /\ route.response.status = 200
     /\ route.attempt = 2
     /\ recommendations = create_default_recommendations(df)
     /\ folder[route.response.cleaned_filename] = df
     /\ route.response.report.final_rows = route.response.report.original_rows
     /\ route.response.report.original_rows = NRows(df)

\* C26: a cleaning run that needs no operation ends in success. Every /clean
\* request is answered after at most one re-run, which uses the default
\* recommendations, and an answer after an empty audit log is a success
\* response with a report for the unchanged dataset.
EmptyLogEndsInSuccess ==
  /\ [](route.name = "/clean" => route.attempt <= 2)
  /\ []EmptyLogIsAnsweredAsSuccess
  /\ (route.name = "/clean") ~> (pc = "responded")

\* A request answered with status 200 after the re-run logged nothing either.
EmptyLogAnswered ==
  /\ AnsweredWithEmptyLog
  /\ route.attempt = 2
  /\ route.response.status = 200

\* ------------------------------------------------------------------- C27
\* C27: create_default_recommendations chooses the missing-value method of a
\* column by its type: "median" for a numeric column with a missing cell,
\* "mode" for any other column with a missing cell, "none" for a column
\* without missing cells; one recommendation per column, in column order.
DefaultMissingMethodByType ==
  [][CreateDefault =>
       LET recs == recommendations'.column_recommendations
       IN /\ Len(recs) = Len(df.names)
          /\ \A k \in 1..Len(df.names) :
               /\ recs[k].column_name = df.names[k]
               /\ recs[k].missing_values =
                    IF \A r \in 1..Len(df.rows) : df.rows[r][k] # NaN THEN "none"
                    ELSE IF df.dtypes[k] = "number" THEN "median"
                    ELSE "mode"]_vars

\* Default recommendations with "median" for a numeric column and "mode" for
\* an object column, each with a missing cell.
MedianAndModeRecommended ==
  /\ fn = "apply_ai_recommendations"
  /\ recommendations = create_default_recommendations(df)
  /\ df.dtypes = <<"number", "object">>
  /\ recommendations.column_recommendations[1].missing_values = "median"
  /\ recommendations.column_recommendations[2].missing_values = "mode"

\* ------------------------------------------------------------------- C28
\* The duplicate step about to run got "all_columns" for an answer, or names
\* of which none is a column of the frame.
UnusableAnswerStep ==
  /\ DuplicateStep
  /\ \/ answer.kind = "all_columns"
     \/ /\ answer.kind = "columns"
        /\ \A k \in 1..Len(answer.columns) : ~HasColumn(cleaned_df, answer.columns[k])

MissingCells(d, c) == Cardinality({ r \in 1..Len(d.rows) : d.rows[r][c] = NaN })

\* C29: no step of apply_ai_recommendations introduces a missing value. No
\* step leaves a column with more missing cells than it had, and in the
\* finished report missing_values_after is the count of the cleaned frame and
\* at most missing_values_before, which is the count of the frame passed in,
\* for every column.
NoStepIntroducesMissingValues ==
  /\ [][ IsApply => \A c \in 1..Len(cleaned_df.names) :
                      MissingCells(cleaned_df', c) <= MissingCells(cleaned_df, c) ]_vars
  /\ []( (IsApply /\ pc = "done") =>
           \A c \in 1..Len(df.names) :
             /\ report.missing_values_before[c] = MissingCells(df, c)
             /\ report.missing_values_after[c] = MissingCells(cleaned_df, c)
             /\ report.missing_values_after[c] <= report.missing_values_before[c] )

\* A finished run that capped an outlier, transformed values and has fewer
\* missing cells in a column than it started with.
MissingValuesWentDown ==
  /\ IsApply /\ pc = "done"
  /\ \E k \in 1..Len(audit_log) : audit_log[k].operation = "cap_outliers"
  /\ \E k \in 1..Len(audit_log) : audit_log[k].operation = "value_transformation"
  /\ \E c \in 1..Len(df.names) :
       report.missing_values_after[c] < report.missing_values_before[c]

\* ------------------------------------------------------------------- C30
\* The name, in lower case, holds one of the words.
HoldsWord(name, words) == \E word \in words : Contains(Lower(name), word)

\* The category of a recommendation's column: the first of price, quantity,
\* date and id whose words the name of a column of the frame holds.
StatedCategory(d, name) ==
  IF \A c \in 1..Len(d.names) : d.names[c] # name THEN "other"
  ELSE IF HoldsWord(name, {<<"p", "r", "i", "c", "e">>, <<"c", "o", "s", "t">>,
                           <<"r", "e", "v", "e", "n", "u", "e">>}) THEN "price"
  ELSE IF HoldsWord(name, {<<"q", "u", "a", "n", "t", "i", "t", "y">>,
                           <<"s", "t", "o", "c", "k">>,
                           <<"i", "n", "v", "e", "n", "t", "o", "r", "y">>}) THEN "quantity"
  ELSE IF HoldsWord(name, {<<"d", "a", "t", "e">>, <<"t", "i", "m", "e">>}) THEN "date"
  ELSE IF HoldsWord(name, {<<"i", "d">>, <<"c", "o", "d", "e">>, <<"s", "k", "u">>}) THEN "id"
  ELSE "other"

\* The recommendation was rewritten as the rules of a category have it.
RewrittenAs(category, rec) ==
  CASE category = "price" ->
         /\ rec.missing_values = "median"
         /\ rec.outliers = [method |-> "iqr", action |-> "cap"]
         /\ EnsurePricesPositive \in rec.value_transformations
    [] category = "quantity" ->
         /\ rec.missing_values = "mode"
         /\ rec.outliers = [method |-> "zscore", action |-> "cap"]
         /\ ConvertToInteger \in rec.value_transformations
    [] category = "date" ->
         /\ rec.missing_values = "drop"
         /\ rec.outliers = [method |-> "none", action |-> "none"]
         /\ "Standardize to ISO format (YYYY-MM-DD)" \in rec.value_transformations
    [] category = "id" ->
         /\ rec.missing_values = "drop"
         /\ rec.outliers = [method |-> "none", action |-> "none"]
         /\ "Check ID format consistency" \in rec.value_transformations

\* The language model's recommendations for an e-commerce frame are about to
\* pass through apply_ecommerce_rules.
EcommerceRulesStep ==
  /\ GetRecommendations
  /\ ChainResult.kind = "parsed"
  /\ detect_ecommerce_domain(df)

\* C30: apply_ecommerce_rules returns the recommendations it was given, in the
\* same order and for the same column names; it rewrites those whose column
\* falls into a category, by the first of price, quantity, date and id that
\* matches, leaves every other as it was, and sets duplicate_removal to true
\* whatever the recommender returned.
EcommerceRulesRewriteByCategory ==
  [][ EcommerceRulesStep =>
        LET before == chain_result.recommendations.column_recommendations
            after == recommendations'.column_recommendations
        IN /\ recommendations'.duplicate_removal
           /\ Len(after) = Len(before)
           /\ \A k \in 1..Len(before) :
                LET category == StatedCategory(df, before[k].column_name)
                IN /\ after[k].column_name = before[k].column_name
                   /\ IF category = "other" THEN after[k] = before[k]
                      ELSE RewrittenAs(category, after[k]) ]_vars

\* The rules ran on recommendations without duplicate removal for the frame
\* whose columns fall into two categories at once, and rewrote the one for the
\* column that is both a price and an identifier.
TwoCategoryColumnsRewritten ==
  /\ IsApply /\ pc = "duplicates"
  /\ df = CategoryFrame
  /\ chain_result.kind = "parsed"
  /\ ~chain_result.recommendations.duplicate_removal
  /\ recommendations.duplicate_removal
  /\ \E k \in 1..Len(recommendations.column_recommendations) :
       /\ recommendations.column_recommendations[k].column_name = Price_ID
       /\ recommendations.column_recommendations[k].missing_values = "median"

====
